---- MODULE Spec2Model ----
(***************************************************************************)
(* A model of the scoutfs cluster server (kmod/src/server.c): request      *)
(* handlers that change the in-memory super block under the shared commit  *)
(* hold, the commit worker that writes it, the publication of the stable   *)
(* roots, and the metadata allocator pools of the server and its clients.  *)
(*                                                                         *)
(* B-trees are an external collaborator: a tree is modelled by the map or  *)
(* set it holds, and the root of a tree by that value.  An allocator root  *)
(* or list is modelled by the set of block numbers it holds.  Data block   *)
(* allocators are left out.                                                *)
(***************************************************************************)
EXTENDS Integers, FiniteSets, Sequences, TLC

\* ---------------------------------------------------------------- bounds
\* request-processing threads; thread t serves the connection of client rid t
NumHandlers == 2
\* requests the server takes in before no more arrive: under Spec, and under
\* SpecAlloc
MaxReqs == 2
MaxAllocReqs == 3
\* the largest count an ALLOC_INODES request asks for
MaxCount == 2
\* the nr of a log_trees key is in 1..MaxNr
MaxNr == 2
\* metadata block numbers are 1..NumBlocks
NumBlocks == 4
\* the largest 64 bit value, scaled to the model
U64_MAX == 7
\* threads in get_roots at once, and the set_roots calls made under SpecSeq
NumReaders == 1
MaxPubs == 2
\* the server's thresholds, scaled to the few blocks of the model: refill a
\* list that holds fewer than MetaFillLo blocks up to MetaFillTarget, swap
\* meta_avail and meta_freed when avail holds at most MetaAllocMin
MetaFillLo == 1
MetaFillTarget == 2
MetaAllocMin == 1
\* the mounts whose farewells are followed: NumMounts of them, the first
\* NumQuorum of them quorum members; the quorum is configured with NumQuorum
\* or with MaxSlots slots
NumMounts == 4
NumQuorum == 3
MaxSlots == 5
\* the first NumRecov mounts are mounted when the server starts and have to
\* recover
\* the volume options: SCOUTFS_SERVER_DATA_FILL_TARGET and
\* SCOUTFS_DATA_ALLOC_MAX_ZONES scaled down, the data device has
\* MaxDataBlocks blocks or one less, MaxVoloptReqs requests are followed
NumRecov == 2
\* the blocks of the device the block layer is followed on, the highest
\* dirty seq, the values of the rest of a block and the fsid of another
\* volume
NumBlknos == 3
MaxBlockSeq == 4
MaxData == 1
SuperFsid == 1
OtherFsid == 2
DataFillTarget == 2
DataAllocMaxZones == 2
MaxDataBlocks == 5
MaxVoloptReqs == 2
\* the requests that are followed lock by lock
MaxLockReqs == 3
\* the rids with an item in the logs tree when the zone bitmaps are computed
NumZoneRids == 2

\* ------------------------------------------------------------ error codes
EIO == -5
EINVAL == -22
ENOENT == -2
EEXIST == -17

Handlers == 1..NumHandlers
\* the thread of the farewell worker / reclaim worker, which runs reclaim_rid
Reclaimer == NumHandlers + 1
Threads == Handlers \cup {Reclaimer}
Rids == Handlers
Blocks == 1..NumBlocks
\* who references blocks from its trees: the clients, and the server as 0
Owners == Rids \cup {0}
\* the nr values of the log_trees keys (rid, nr)
Nrs == 1..MaxNr
\* the rids of the mounts whose farewells are followed, numbers that name
\* no thread, and the quorum members among them
Mounts == {Reclaimer + i : i \in 1..NumMounts}
QuorumMounts == {Reclaimer + i : i \in 1..NumQuorum}
RecovMounts == {Reclaimer + i : i \in 1..NumRecov}
\* the numbers of slots the quorum can be configured with
QuorumSlots == {NumQuorum, MaxSlots}

\* threads that call get_roots at the same time
Readers == 1..NumReaders
\* the fields of struct scoutfs_net_roots
Fields == {"fs_root", "logs_root", "srch_root"}
\* a get_roots call about to start: the seq it read, the fields it has yet
\* to copy, the copy, whether it has gone round the loop again
NoRead == [pc |-> "begin", seq |-> 0, todo |-> {}, copy |-> [f \in Fields |-> 0],
           retried |-> FALSE]

Min(a, b) == IF a < b THEN a ELSE b

\* struct scoutfs_log_trees, its nr, its metadata and data allocators, the
\* zone size and the zone bits of its data_avail: the item at a key
\* (rid, nr) of the logs tree, or no item.  A new item has nr 1.
NoLt == [present |-> FALSE, nr |-> 0, meta_avail |-> {}, meta_freed |-> {},
         data_avail |-> {}, data_freed |-> {}, data_alloc_zone_blocks |-> 0,
         data_alloc_zones |-> {}]
Lt(av, fr) == [NoLt EXCEPT !.present = TRUE, !.nr = 1, !.meta_avail = av,
                           !.meta_freed = fr]

\* recovery before start_recovery: the timer of scoutfs_recov_begin is not
\* set, fence_pending_recov_work is idle and rid is the local of its loop;
\* at_timeout is the history of the rids that were pending when the timer
\* fired and started that of the fences started, in order
NoRecov == [timer |-> "start", work |-> "idle", rid |-> 0, at_timeout |-> {},
            started |-> <<>>]

\* reclaim_dwork before it is queued, and the rid reclaim_worker got from
\* scoutfs_fence_next
NoReclaim == [queued |-> FALSE, pc |-> "idle", rid |-> 0]

\* the mutexes of struct server_info that are taken inside the commit hold
Mutexes == {"alloc_mutex", "logs_mutex", "srch_mutex", "mounted_clients_mutex"}

\* the block numbers of the device
Blknos == 1..NumBlknos

\* a block: struct scoutfs_block_header and one value for the rest; crc
\* says whether the stored crc is the crc of the block
NoBlock == [crc |-> FALSE, fsid |-> 0, blkno |-> 0, seq |-> 0, data |-> 0]

\* a block written by a commit of seq 1
Stable(b, d) == [crc |-> TRUE, fsid |-> SuperFsid, blkno |-> b, seq |-> 1, data |-> d]

\* a buffer head that was never read: BH_Uptodate, BH_ScoutfsVerified,
\* b_private (the block is in block_dirty_tree), BH_Lock and b_data
NoBuf == [uptodate |-> FALSE, verified |-> FALSE, dirty |-> FALSE, locked |-> FALSE,
          c |-> NoBlock]

\* scoutfs_block_write_dirty is not running: ret, node (0 for NULL) and the
\* buffers submitted whose b_end_io was not called yet; failed is the
\* history of the blocks whose write failed in the call
NoWrite == [pc |-> "idle", ret |-> 0, node |-> 0, inflight |-> {}, failed |-> {}]

\* no call of the block layer was made
NoRes == [op |-> "none", blkno |-> 0, ret |-> 0, fetched |-> FALSE, badhdr |-> FALSE,
          failed |-> {}]

\* struct scoutfs_volume_options: the bits of the options that are set and
\* the value of data_alloc_zone_blocks, here with no option set
NoVolopt == [set_bits |-> {}, data_alloc_zone_blocks |-> 0]

\* no call of get_data_alloc_zone_bits
NoZones == [pc |-> "none", total |-> 0, zone_blocks |-> 0, logs |-> <<>>, rid |-> 0,
            exclusive |-> {}, vacant |-> {}, overrun |-> FALSE, ret |-> 0]

\* struct scoutfs_mounted_client_btree_val at the key of a rid: an item of
\* the mounted_clients tree
Mounted(rid, quorum) == [rid |-> rid, quorum |-> quorum]

\* the request a thread is processing: the command, the values the handler
\* computed for the response (seq is -1 until a sequence number is taken),
\* bad_len when the payload has the wrong length, fault when a call of the
\* handler failed with an error of the device or of memory
NoReq == [cmd |-> "none", bad_len |-> FALSE, rid |-> 0, count |-> 0, ino |-> 0,
          nr |-> 0, seq |-> -1, lt |-> NoLt, key |-> <<0, 0>>, term |-> 0, match |-> TRUE,
          fault |-> FALSE, volopt |-> NoVolopt]

\* struct farewell_request: the rid of the connection and the id of the
\* request; requeued when a worker run put it back after it had selected it
Fw(rid, id) == [rid |-> rid, id |-> id, requeued |-> FALSE]

\* the locals of farewell_worker before it runs: where it is, the lists reqs
\* and send, the three counts and ret; idx is the entry of send the reclaim
\* loop is at, counted the mounted client items the count loop saw,
\* reclaimed the rids for which reclaim_rid returned 0 in this run, nsent
\* the responses this run sent
NoWork == [pc |-> "idle", reqs |-> <<>>, send |-> <<>>, quo_reqs |-> 0,
           quo_mnts |-> 0, non_mnts |-> 0, ret |-> 0, idx |-> 0, counted |-> {},
           reclaimed |-> {}, nsent |-> 0]

VARIABLES
    pc,             \* pc[t]: where thread t is in its handler
    req,            \* req[t]: the request thread t is processing, its results
    err,            \* err[t]: the handler's ret when it calls apply_commit
    hret,           \* hret[t]: what apply_commit returned to the handler
    nreq,           \* requests taken in so far
    cw,             \* cw[t]: the commit_waiter on t's stack, [done, ret]
    commit_rwsem,   \* [readers: set of threads, writer: BOOLEAN]
    commit_waiters, \* server->commit_waiters, the threads whose cw is linked
    commit_pending, \* commit_work is queued and has not started to run
    cpc,            \* where the commit worker is in scoutfs_server_commit_func
    ret,            \* ret of the commit worker's current (or last) run
    forcing,        \* scoutfs_forcing_unmount(sb)
    super,          \* the in-memory super block and the trees under it
    disk,           \* the super block (and trees) last written successfully
    prev_roots,     \* the roots of the super block written before that one
    roots,          \* server->roots, published by set_roots
    got,            \* the last GET_ROOTS response
    avail_ind,      \* server->meta_avail is &super->meta_alloc[avail_ind]
    other_ind,      \* server->other_ind, the idle bank
    alloc,          \* server->alloc: [avail, freed], the active bank's heads
    client_lt,      \* the log_trees each client holds from GET_LOG_TREES
    used,           \* used[o]: blocks of the trees of client o, of the server (0)
    gone,           \* clients that said farewell or were fenced: they send no more
    roots_seqcount, \* server->roots_seqcount
    wr,             \* the set_roots call in progress: [pc, n]
    rd,             \* rd[r]: the get_roots call of reader r
    last,           \* the last GET_LAST_SEQ response
    farewell_requests, \* server->farewell_requests, a list of [rid, net_id]
    farewell_queued,   \* farewell_work is queued and has not started to run
    fwk,            \* the locals of the running farewell_worker
    shutting_down,  \* server->shutting_down
    sent,           \* the FAREWELL responses sent, in order, as [rid, id]
    recov,          \* rids that finished the GREETING step of recovery
    received,       \* the FAREWELL requests taken in, as [rid, id]
    \* history variables, read only by the properties
    pending,        \* blocks put on a freed list and not yet committed
    steps,          \* steps of the current commit run that returned success
    nwrites,        \* super block writes attempted by the current commit run
    at_lock,        \* the waiters linked when the run got the exclusive hold
    batch,          \* the waiters the current (or last) run completed
    covered,        \* threads whose release was followed by a good super write
    failed,         \* changes made by requests that were answered with an error
    taken,          \* the inode ranges and sequence numbers handed out so far
    \* the volume options
    volopt,         \* server->volopt, the options the readers are given
    volopt_mutex,   \* the thread that holds server->volopt_mutex, or 0
    volopt_pre,     \* history: both copies as they were when the mutex was taken
    \* recovery and fencing
    recov_pending,  \* recov_pending[rid]: the recovery steps the rid has not finished
    fence,          \* fence[rid]: the state of the fence request of the rid
    rcv,            \* the recovery timer and fence_pending_recov_work
    rwk,            \* reclaim_dwork and the locals of reclaim_worker
    \* the block layer
    bdev,           \* bdev[blkno]: the block on the device
    bufs,           \* bufs[blkno]: the buffer head of the block and its data
    sbi,            \* block_writes, block_write_err and super.hdr.seq of the sb_info
    wd,             \* the locals of scoutfs_block_write_dirty and its writes in flight
    buddy,          \* the blocks the allocator can give and those freed to it
    bref,           \* the block reference of the caller
    zn,             \* a call of get_data_alloc_zone_bits: what it finds and returns
    bres,           \* history: the last call of the block layer and its result
    \* the locks inside the commit hold
    mutex,          \* mutex[m]: the thread that holds the mutex m of the server, or 0
    seq_rwsem,      \* server->seq_rwsem: its readers and its writer, or 0
    lk              \* lk[t]: the lock and unlock calls the handler of t has yet to make

thread_vars == <<pc, req, err, hret, nreq, cw>>
commit_vars == <<commit_rwsem, commit_waiters, commit_pending, cpc, ret>>
root_vars == <<prev_roots, roots, got>>
pool_vars == <<avail_ind, other_ind, alloc>>
client_vars == <<client_lt, used, gone>>
run_vars == <<steps, nwrites, at_lock, batch>>
seq_vars == <<roots_seqcount, wr, rd>>
life_vars == <<farewell_requests, farewell_queued, fwk, shutting_down, sent, recov,
              received>>
volopt_vars == <<volopt, volopt_mutex, volopt_pre>>
recov_vars == <<recov_pending, fence, rcv, rwk>>
block_vars == <<bdev, bufs, sbi, wd, buddy, bref, bres>>
lock_vars == <<mutex, seq_rwsem, lk>>
more_vars == <<volopt_vars, recov_vars, block_vars, lock_vars, zn>>
vars == <<thread_vars, commit_vars, forcing, super, disk, root_vars, pool_vars,
          client_vars, pending, run_vars, covered, failed, seq_vars, life_vars,
          taken, last, more_vars>>

\* server->meta_avail, server->meta_freed, server->other_avail and
\* server->other_freed point into the super block
MetaAvail == super.meta_alloc[avail_ind]
MetaFreed == super.meta_alloc[1 - avail_ind]
OtherAvail == super.server_meta_avail[other_ind]
OtherFreed == super.server_meta_freed[other_ind]

\* the roots set_roots publishes from a super block
RootsOf(s) == [fs_root |-> s.fs_root, logs_root |-> s.logs,
               srch_root |-> s.srch_root]

\* the super block of a file system with no items, every metadata block free
\* in meta_alloc[0]
FreshSuper ==
    [next_ino |-> 1, next_trans_seq |-> 1, trans_seqs |-> {},
     mounted_clients |-> {Mounted(r, FALSE) : r \in Rids},
     fs_root |-> 0, srch_root |-> 0,
     logs |-> [k \in Rids \X Nrs |-> NoLt],
     quorum_slots |-> NumQuorum, data_alloc |-> {},
     volopt |-> NoVolopt, total_data_blocks |-> MaxDataBlocks,
     meta_alloc |-> [i \in 0..1 |-> IF i = 0 THEN Blocks ELSE {}],
     server_meta_avail |-> [i \in 0..1 |-> {}],
     server_meta_freed |-> [i \in 0..1 |-> {}]]

\* scoutfs_server_worker: read the super block, publish its roots, start
\* with the larger of the two server_meta_avail banks as the active bank and
\* the larger of the two meta_alloc roots as meta_avail
Started(s) ==
    /\ super = s
    /\ disk = s
    /\ prev_roots = RootsOf(s)
    /\ roots = RootsOf(s)
    /\ other_ind = IF Cardinality(s.server_meta_avail[0]) <
                      Cardinality(s.server_meta_avail[1]) THEN 0 ELSE 1
    /\ alloc = [avail |-> s.server_meta_avail[1 - other_ind],
                freed |-> s.server_meta_freed[1 - other_ind]]
    /\ avail_ind = IF Cardinality(s.meta_alloc[1]) > Cardinality(s.meta_alloc[0])
                   THEN 1 ELSE 0

Idle ==
    /\ pc = [t \in Threads |-> "idle"]
    /\ req = [t \in Threads |-> NoReq]
    /\ err = [t \in Threads |-> 0]
    /\ hret = [t \in Threads |-> 0]
    /\ nreq = 0
    /\ cw = [t \in Threads |-> [done |-> FALSE, ret |-> 0]]
    /\ commit_rwsem = [readers |-> {}, writer |-> FALSE]
    /\ commit_waiters = {}
    /\ commit_pending = FALSE
    /\ cpc = "idle"
    /\ ret = 0
    /\ forcing = FALSE
    /\ roots_seqcount = 0
    /\ wr = [pc |-> "idle", n |-> 0]
    /\ rd = [r \in Readers |-> NoRead]
    /\ got = [arg_len |-> 0, error |-> 0, roots |-> roots, stable |-> roots]
    /\ client_lt = [r \in Rids |-> NoLt]
    /\ used = [o \in Owners |-> {}]
    /\ gone = {}
    /\ pending = {}
    /\ steps = {}
    /\ nwrites = 0
    /\ at_lock = {}
    /\ batch = {}
    /\ covered = {}
    /\ failed = {}
    /\ taken = [inos |-> {}, seqs |-> {}]
    /\ last = [error |-> 0, seq |-> 0, live |-> {}, next |-> 1]
    /\ farewell_requests = <<>>
    /\ farewell_queued = FALSE
    /\ fwk = NoWork
    /\ shutting_down = FALSE
    /\ sent = <<>>
    /\ recov = {}
    /\ received = {}
    /\ volopt = super.volopt
    /\ volopt_mutex = 0
    /\ volopt_pre = [super |-> super.volopt, server |-> super.volopt]
    /\ recov_pending = [r \in RecovMounts |-> {}]
    /\ fence = [r \in RecovMounts |-> "none"]
    /\ rcv = NoRecov
    /\ rwk = NoReclaim
    /\ bdev = [b \in Blknos |-> IF b = 1 THEN Stable(b, MaxData) ELSE NoBlock]
    /\ bufs = [b \in Blknos |-> NoBuf]
    /\ sbi = [block_writes |-> 0, block_write_err |-> 0, seq |-> 2]
    /\ wd = NoWrite
    /\ buddy = [free |-> Blknos \ {1}, freed |-> {}]
    /\ bref = [blkno |-> 1, seq |-> 1]
    /\ bres = NoRes
    /\ mutex = [m \in Mutexes |-> 0]
    /\ seq_rwsem = [readers |-> {}, writer |-> 0]
    /\ lk = [t \in Threads |-> <<>>]
    /\ zn = NoZones

Init == Started(FreshSuper) /\ Idle

\* ------------------------------------------------- the shared commit hold

\* a down_read that does not wait for the writer
CanDownReadNoWait == TRUE

\* down_read(&server->commit_rwsem): a reader gets in while no writer holds
CanDownRead == ~commit_rwsem.writer

\* down_write(&server->commit_rwsem): the writer gets in alone
CanDownWrite == commit_rwsem.readers = {} /\ ~commit_rwsem.writer

\* scoutfs_server_hold_commit, called first by a handler that modifies state
HoldCommit(t) ==
    /\ pc[t] = "idle"
    /\ nreq' = nreq + 1
    /\ t \notin gone
    /\ CanDownRead
    /\ commit_rwsem' = [commit_rwsem EXCEPT !.readers = @ \cup {t}]
    /\ pc' = [pc EXCEPT ![t] = "held"]
    /\ UNCHANGED <<life_vars, taken, last, seq_vars, more_vars, req, err, hret, cw, commit_waiters, commit_pending, cpc, ret,
                   forcing, super, disk, root_vars, pool_vars, client_vars,
                   pending, run_vars, covered, failed>>

\* a request arrives whose handler takes the commit hold, while the number
\* of requests is within the bound of the specification
Request(t) == nreq < MaxReqs /\ HoldCommit(t)
AllocRequest(t) == nreq < MaxAllocReqs /\ HoldCommit(t)

\* an apply_commit that links the waiter and leaves the commit work as it is
ApplyCommitLinksOnly(t) ==
    /\ pc[t] = "apply"
    /\ IF err[t] = 0
       THEN /\ cw' = [cw EXCEPT ![t] = [done |-> FALSE, ret |-> 0]]
            /\ commit_waiters' = commit_waiters \cup {t}
            /\ UNCHANGED commit_pending
            /\ pc' = [pc EXCEPT ![t] = "wait"]
            /\ hret' = hret
       ELSE /\ pc' = [pc EXCEPT ![t] = "respond"]
            /\ hret' = [hret EXCEPT ![t] = err[t]]
            /\ UNCHANGED <<cw, commit_waiters, commit_pending>>
    /\ commit_rwsem' = [commit_rwsem EXCEPT !.readers = @ \ {t}]
    /\ UNCHANGED <<life_vars, taken, last, seq_vars, more_vars, req, err, nreq, cpc, ret, forcing, super, disk, root_vars,
                   pool_vars, client_vars, pending, run_vars, covered, failed>>

\* scoutfs_server_apply_commit up to up_read: with err = 0 link the waiter
\* and queue the commit work, then release the shared hold
ApplyCommit(t) ==
    /\ pc[t] = "apply"
    /\ IF err[t] = 0
       THEN /\ cw' = [cw EXCEPT ![t] = [done |-> FALSE, ret |-> 0]]
            /\ commit_waiters' = commit_waiters \cup {t}
            /\ commit_pending' = TRUE
            /\ pc' = [pc EXCEPT ![t] = "wait"]
            /\ hret' = hret
       ELSE /\ pc' = [pc EXCEPT ![t] = "respond"]
            /\ hret' = [hret EXCEPT ![t] = err[t]]
            /\ UNCHANGED <<cw, commit_waiters, commit_pending>>
    /\ commit_rwsem' = [commit_rwsem EXCEPT !.readers = @ \ {t}]
    /\ UNCHANGED <<life_vars, taken, last, seq_vars, more_vars, req, err, nreq, cpc, ret, forcing, super, disk, root_vars,
                   pool_vars, client_vars, pending, run_vars, covered, failed>>

\* scoutfs_server_apply_commit from wait_for_completion: return cw.ret
WaitForCommit(t) ==
    /\ pc[t] = "wait"
    /\ cw[t].done
    /\ hret' = [hret EXCEPT ![t] = cw[t].ret]
    /\ pc' = [pc EXCEPT ![t] = "respond"]
    /\ UNCHANGED <<life_vars, taken, last, seq_vars, more_vars, req, err, nreq, cw, commit_vars, forcing, super, disk,
                   root_vars, pool_vars, client_vars, pending, run_vars,
                   covered, failed>>

\* what a request that is answered with an error has changed in the
\* in-memory super block: the inode numbers or the sequence number it took
Changes(r) ==
    (IF r.cmd = "alloc_inodes" /\ r.nr > 0 THEN {<<"ino", r.ino>>} ELSE {}) \cup
    (IF r.cmd = "advance_seq" /\ r.seq >= 0 THEN {<<"seq", r.seq>>} ELSE {})

\* the request is a GREETING that went through hold_commit and apply_commit
GreetingCommitted(r) ==
    r.cmd = "greeting" /\ ~r.bad_len /\ r.match /\ r.term = 0

\* the handler sends its response with the result of apply_commit
\* (scoutfs_net_response); reclaim_rid returns it to the worker.  The
\* handler returns and its locals are gone.  A client
\* keeps the log_trees of a successful GET_LOG_TREES and gives up the one it
\* sent with a successful COMMIT_LOG_TREES.  server_greeting queues the
\* farewell work after apply_commit whatever it returned, and before the
\* response of a greeting that succeeded it marks the GREETING step of the
\* rid's recovery as finished.
Respond(t) ==
    /\ pc[t] = "respond"
    /\ volopt_mutex # t
    /\ pc' = [pc EXCEPT ![t] = "idle"]
    /\ failed' = IF hret[t] # 0 THEN failed \cup Changes(req[t]) ELSE failed
    /\ client_lt' = IF hret[t] = 0 /\ req[t].cmd = "get_log_trees"
                    THEN [client_lt EXCEPT ![t] = req[t].lt]
                    ELSE IF hret[t] = 0 /\ req[t].cmd = "commit_log_trees"
                    THEN [client_lt EXCEPT ![t] = NoLt]
                    ELSE client_lt
    /\ req' = [req EXCEPT ![t] = NoReq]
    /\ err' = [err EXCEPT ![t] = 0]
    /\ hret' = [hret EXCEPT ![t] = 0]
    /\ cw' = [cw EXCEPT ![t] = [done |-> FALSE, ret |-> 0]]
    /\ covered' = covered \ {t}
    /\ farewell_queued' = (farewell_queued \/ GreetingCommitted(req[t]))
    /\ recov' = IF req[t].cmd = "greeting" /\ hret[t] = 0
                THEN recov \cup {req[t].rid} ELSE recov
    /\ UNCHANGED <<farewell_requests, fwk, shutting_down, sent, received, taken, last,
                   seq_vars, more_vars, nreq, commit_vars, forcing, super, disk, root_vars, pool_vars,
                   used, gone, pending, run_vars>>

\* --------------------------------------------------- allocator operations
\* (alloc.c is an external collaborator; these follow its contract)

\* the n lowest blocks of S, all of S when it holds no more than n
RECURSIVE Take(_, _)
Take(S, n) ==
    IF n <= 0 \/ S = {} THEN {}
    ELSE LET m == CHOOSE x \in S : \A y \in S : x <= y
         IN {m} \cup Take(S \ {m}, n - 1)

\* scoutfs_alloc_fill_list(dst, src, lo, target): the blocks that move from
\* src to dst, none unless dst holds fewer than lo
FillList(dst, src, lo, target) ==
    IF Cardinality(dst) < lo THEN Take(src, target - Cardinality(dst)) ELSE {}

\* scoutfs_alloc_empty_list(dst, src): the sets of blocks that may move from
\* src to dst, all of src or the first few of it
EmptyList(src) == {Take(src, k) : k \in 0..Cardinality(src)}

\* a B-tree modification made with server->alloc may copy a block on write:
\* the new block comes from alloc.avail, the old one goes to alloc.freed.
\* a is server->alloc, u the server's blocks, c whether a block is copied.
CowAlloc(a, u, c) ==
    IF c /\ a.avail # {}
    THEN [avail |-> a.avail \ Take(a.avail, 1),
          freed |-> a.freed \cup Take(u, 1)]
    ELSE a
CowUsed(a, u, c) ==
    IF c /\ a.avail # {} THEN (u \ Take(u, 1)) \cup Take(a.avail, 1) ELSE u
CowFreed(a, u, c) ==
    IF c /\ a.avail # {} THEN Take(u, 1) ELSE {}

\* ------------------------------------------------------- request handlers

\* a server_alloc_inodes that hands out count inode numbers whatever is left
AllocInodesNoClamp(t) ==
    /\ t \in Handlers
    /\ pc[t] = "held"
    /\ \E count \in 1..MaxCount :
         LET ino == super.next_ino
         IN /\ super' = [super EXCEPT !.next_ino = (ino + count) % (U64_MAX + 1)]
            /\ req' = [req EXCEPT ![t] = [NoReq EXCEPT !.cmd = "alloc_inodes",
                                            !.rid = t, !.count = count,
                                            !.ino = ino, !.nr = count]]
            /\ taken' = [taken EXCEPT !.inos = @ \cup {<<ino, count>>}]
    /\ err' = [err EXCEPT ![t] = 0]
    /\ pc' = [pc EXCEPT ![t] = "apply"]
    /\ UNCHANGED <<life_vars, last, seq_vars, more_vars, hret, nreq, cw, commit_vars, forcing, disk,
                   root_vars, pool_vars, client_vars, pending, run_vars, covered,
                   failed>>

\* server_alloc_inodes between hold_commit and apply_commit: hand out up to
\* count inode numbers from next_ino, never passing U64_MAX
AllocInodesBody(t) ==
    /\ t \in Handlers
    /\ pc[t] = "held"
    /\ \E count \in 1..MaxCount :
         LET ino == super.next_ino
             nr == Min(count, U64_MAX - ino)
         IN /\ super' = [super EXCEPT !.next_ino = ino + nr]
            /\ req' = [req EXCEPT ![t] = [NoReq EXCEPT !.cmd = "alloc_inodes",
                                            !.rid = t, !.count = count,
                                            !.ino = ino, !.nr = nr]]
            /\ taken' = [taken EXCEPT !.inos = @ \cup {<<ino, nr>>}]
    /\ err' = [err EXCEPT ![t] = 0]
    /\ pc' = [pc EXCEPT ![t] = "apply"]
    /\ UNCHANGED <<life_vars, last, seq_vars, more_vars, hret, nreq, cw, commit_vars, forcing, disk, root_vars,
                   pool_vars, client_vars, pending, run_vars, covered, failed>>

\* the trans_seq items (seq, rid) of a rid
RidSeqs(s, rid) == {k \in s.trans_seqs : k[2] = rid}

\* remove_trans_seq_locked walks the items in key order and deletes those of
\* the rid: the sets it may have deleted when it stops with an error
SeqPrefixes(s, rid) ==
    {{k \in RidSeqs(s, rid) : k[1] < m} : m \in 0..(U64_MAX + 1)}

\* server_advance_seq between hold_commit and apply_commit, all under
\* seq_rwsem: remove the rid's items, take next_trans_seq, insert the item
AdvanceSeqBody(t) ==
    /\ t \in Handlers
    /\ pc[t] = "held"
    /\ \E out \in {"remove_err", "insert_err", "ok"}, cow \in BOOLEAN :
         LET seq == super.next_trans_seq
             took == [NoReq EXCEPT !.cmd = "advance_seq", !.rid = t, !.seq = seq]
         IN CASE out = "remove_err" ->
                   \E D \in SeqPrefixes(super, t) :
                      /\ super' = [super EXCEPT !.trans_seqs = @ \ D]
                      /\ req' = [req EXCEPT ![t] = [NoReq EXCEPT !.cmd = "advance_seq",
                                                                   !.rid = t]]
                      /\ err' = [err EXCEPT ![t] = EIO]
                      /\ UNCHANGED <<alloc, used, pending, taken>>
              [] out = "insert_err" ->
                      /\ super' = [super EXCEPT
                                     !.trans_seqs = @ \ RidSeqs(super, t),
                                     !.next_trans_seq = (seq + 1) % (U64_MAX + 1)]
                      /\ req' = [req EXCEPT ![t] = took]
                      /\ err' = [err EXCEPT ![t] = EIO]
                      /\ taken' = [taken EXCEPT !.seqs = @ \cup {seq}]
                      /\ UNCHANGED <<alloc, used, pending>>
              [] out = "ok" ->
                      /\ super' = [super EXCEPT
                                     !.trans_seqs = (@ \ RidSeqs(super, t))
                                                    \cup {<<seq, t>>},
                                     !.next_trans_seq = (seq + 1) % (U64_MAX + 1)]
                      /\ req' = [req EXCEPT ![t] = took]
                      /\ err' = [err EXCEPT ![t] = 0]
                      /\ taken' = [taken EXCEPT !.seqs = @ \cup {seq}]
                      /\ alloc' = CowAlloc(alloc, used[0], cow)
                      /\ used' = [used EXCEPT ![0] = CowUsed(alloc, used[0], cow)]
                      /\ pending' = pending \cup CowFreed(alloc, used[0], cow)
    /\ pc' = [pc EXCEPT ![t] = "apply"]
    /\ UNCHANGED <<life_vars, last, seq_vars, more_vars, hret, nreq, cw, commit_vars, forcing, disk, root_vars,
                   avail_ind, other_ind, client_lt, gone, run_vars, covered, failed>>

\* the sequence numbers of the trans_seq items
LiveSeqs(s) == {k[1] : k \in s.trans_seqs}

\* server_get_last_seq, under the read side of seq_rwsem and with no commit
\* hold: the seq of the first trans_seq item, or next_trans_seq when the
\* tree is empty, less one as a 64 bit value.  A payload of the wrong
\* length is answered -EINVAL with last_seq 0; a scoutfs_btree_next that
\* fails leaves last_seq 0 before one is taken off it.  (live and next
\* record for the properties the items and next_trans_seq at the call.)
ServerGetLastSeq ==
    /\ \E out \in {"bad_len", "next_err", "ok"} :
         LET live == LiveSeqs(super)
             first == CHOOSE m \in live : \A x \in live : m <= x
             found == IF live # {} THEN first ELSE super.next_trans_seq
         IN last' = [error |-> CASE out = "bad_len" -> EINVAL
                                 [] out = "next_err" -> EIO
                                 [] out = "ok" -> 0,
                     seq |-> CASE out = "bad_len" -> 0
                               [] out = "next_err" -> (0 - 1) % (U64_MAX + 1)
                               [] out = "ok" -> (found - 1) % (U64_MAX + 1),
                     live |-> live, next |-> super.next_trans_seq]
    /\ UNCHANGED <<life_vars, taken, seq_vars, more_vars, thread_vars, commit_vars, forcing, super,
                   disk, root_vars, pool_vars, client_vars, pending, run_vars,
                   covered, failed>>

\* the keys of the items of a rid in the logs tree
RidLogs(s, rid) == {k \in DOMAIN s.logs : k[1] = rid /\ s.logs[k].present}

\* scoutfs_btree_prev from the key (rid, U64_MAX), with the check that the
\* item found is of the rid: the key of the rid's last item, or (rid, 0)
\* when the rid has none (-ENOENT)
LogsPrev(s, rid) ==
    IF RidLogs(s, rid) = {} THEN <<rid, 0>>
    ELSE CHOOSE k \in RidLogs(s, rid) : \A j \in RidLogs(s, rid) : j[2] <= k[2]

\* scoutfs_btree_next from the key (rid, 0), with the same check: the key of
\* the rid's first item, or (rid, 0)
LogsNext(s, rid) ==
    IF RidLogs(s, rid) = {} THEN <<rid, 0>>
    ELSE CHOOSE k \in RidLogs(s, rid) : \A j \in RidLogs(s, rid) : j[2] >= k[2]

\* a zero_data_alloc_zone_bits that leaves the item as it is
KeepDataAllocZoneBits(lt) == lt

\* zero_data_alloc_zone_bits
ZeroDataAllocZoneBits(lt) ==
    [lt EXCEPT !.data_alloc_zone_blocks = 0, !.data_alloc_zones = {}]

\* reclaim_log_trees when the first n of its four moves succeeded: the two
\* metadata lists spliced are in other_freed, the data extents moved are in
\* the data_alloc of the super block, and the item is updated with what is
\* left and with its zone bits zeroed, whatever n
ReclaimLogTrees(s, rid, n) ==
    LET key == LogsNext(s, rid)
        lt == s.logs[key]
        fr == IF n >= 1 THEN lt.meta_freed ELSE {}
        av == IF n >= 2 THEN lt.meta_avail ELSE {}
        dav == IF n >= 3 THEN lt.data_avail ELSE {}
        dfr == IF n >= 4 THEN lt.data_freed ELSE {}
    IN IF key[2] = 0 THEN s
       ELSE [s EXCEPT !.logs[key] = ZeroDataAllocZoneBits(
                                        [lt EXCEPT !.meta_avail = @ \ av,
                                                   !.meta_freed = @ \ fr,
                                                   !.data_avail = @ \ dav,
                                                   !.data_freed = @ \ dfr]),
                      !.server_meta_freed[other_ind] = @ \cup fr \cup av,
                      !.data_alloc = @ \cup dav \cup dfr]

\* the blocks reclaim_log_trees put on other_freed
Reclaimed(s, rid, n) ==
    LET key == LogsNext(s, rid)
    IN IF key[2] = 0 THEN {}
       ELSE (IF n >= 1 THEN s.logs[key].meta_freed ELSE {}) \cup
            (IF n >= 2 THEN s.logs[key].meta_avail ELSE {})

\* delete_mounted_client: delete the item at the key of the rid; no item is
\* no error
DeleteMounted(mc, rid) == {m \in mc : m.rid # rid}

\* a delete_mounted_client that returns the -ENOENT of scoutfs_btree_delete
DeleteMountedNoent(mc, rid) == IF \A m \in mc : m.rid # rid THEN ENOENT ELSE 0

\* delete_mounted_client, what it returns when the btree does not fail: 0,
\* with -ENOENT turned into 0
DeleteMountedRet(mc, rid) ==
    LET deleted == IF \A m \in mc : m.rid # rid THEN ENOENT ELSE 0
    IN IF deleted = ENOENT THEN 0 ELSE deleted

\* reclaim_rid between hold_commit and apply_commit, for a client that said
\* farewell or was fenced.  The steps run in order until one fails:
\* lock server farewell, remove_trans_seq, reclaim_log_trees with its four
\* moves, cancel srch compactions, omap, quorum leader,
\* delete_mounted_client.
ReclaimRid(t, rid) ==
    /\ t = Reclaimer
    /\ pc[t] = "held"
    /\ gone' = gone \cup {rid}
    /\ client_lt' = [r \in DOMAIN client_lt |->
                        IF r = rid THEN NoLt ELSE client_lt[r]]
    /\ \E out \in {"lock_err", "seq_err", "freed_err", "avail_err",
                   "data_avail_err", "data_freed_err", "srch_err",
                   "client_err", "ok"} :
         /\ req' = [req EXCEPT ![t] = [NoReq EXCEPT !.cmd = "reclaim_rid",
                                                    !.rid = rid,
                                                    !.fault = (out # "ok")]]
         /\ LET noseq == [super EXCEPT !.trans_seqs = @ \ RidSeqs(super, rid)]
                rec == pending \cup Reclaimed(super, rid, 2)
            IN CASE out = "lock_err" ->
                      /\ UNCHANGED <<super, pending>>
                      /\ err' = [err EXCEPT ![t] = EIO]
                 [] out = "seq_err" ->
                      /\ \E D \in SeqPrefixes(super, rid) :
                           super' = [super EXCEPT !.trans_seqs = @ \ D]
                      /\ UNCHANGED pending
                      /\ err' = [err EXCEPT ![t] = EIO]
                 [] out = "freed_err" ->
                      /\ super' = ReclaimLogTrees(noseq, rid, 0)
                      /\ UNCHANGED pending
                      /\ err' = [err EXCEPT ![t] = EIO]
                 [] out = "avail_err" ->
                      /\ RidLogs(super, rid) # {}
                      /\ super' = ReclaimLogTrees(noseq, rid, 1)
                      /\ pending' = pending \cup Reclaimed(super, rid, 1)
                      /\ err' = [err EXCEPT ![t] = EIO]
                 [] out = "data_avail_err" ->
                      /\ RidLogs(super, rid) # {}
                      /\ super' = ReclaimLogTrees(noseq, rid, 2)
                      /\ pending' = rec
                      /\ err' = [err EXCEPT ![t] = EIO]
                 [] out = "data_freed_err" ->
                      /\ RidLogs(super, rid) # {}
                      /\ super' = ReclaimLogTrees(noseq, rid, 3)
                      /\ pending' = rec
                      /\ err' = [err EXCEPT ![t] = EIO]
                 [] out = "srch_err" ->
                      /\ super' = ReclaimLogTrees(noseq, rid, 4)
                      /\ pending' = rec
                      /\ err' = [err EXCEPT ![t] = EIO]
                 [] out = "client_err" ->
                      /\ super' = ReclaimLogTrees(noseq, rid, 4)
                      /\ pending' = rec
                      /\ err' = [err EXCEPT ![t] = EIO]
                 [] out = "ok" ->
                      /\ super' = [ReclaimLogTrees(noseq, rid, 4) EXCEPT
                                     !.mounted_clients = DeleteMounted(@, rid)]
                      /\ pending' = rec
                      /\ err' = [err EXCEPT ![t] =
                                    DeleteMountedRet(super.mounted_clients, rid)]
    /\ pc' = [pc EXCEPT ![t] = "apply"]
    /\ UNCHANGED <<life_vars, taken, last, seq_vars, more_vars, hret, nreq, cw, commit_vars, forcing, disk, root_vars,
                   pool_vars, used, run_vars, covered, failed>>

\* reclaim_rid for a client that is served by a thread of the model and has
\* no request in flight
ReclaimRidBody(t) == \E rid \in Rids : pc[rid] = "idle" /\ ReclaimRid(t, rid)

\* server_get_log_trees between hold_commit and apply_commit, for the client
\* of the connection, which has no open transaction: read the client's item
\* (a zeroed one if there is none), splice its meta_freed into other_freed,
\* refill its meta_avail from meta_avail, and store the item.  A step that
\* fails goes to unlock: the item is stored only when every step succeeded.
GetLogTreesBody(t) ==
    /\ t \in Handlers
    /\ pc[t] = "held"
    /\ ~client_lt[t].present
    /\ \E out \in {"lookup_err", "fill_err", "force_err", "ok"}, cow \in BOOLEAN :
         LET found == LogsPrev(super, t)
             key == IF found[2] = 0 THEN <<t, 1>> ELSE found
             old == IF found[2] = 0 THEN Lt({}, {}) ELSE super.logs[found]
             mv == FillList(old.meta_avail, MetaAvail, MetaFillLo, MetaFillTarget)
             lt == [old EXCEPT !.meta_avail = @ \cup mv, !.meta_freed = {}]
             spliced == [super EXCEPT !.server_meta_freed[other_ind] =
                                          @ \cup old.meta_freed]
             filled == [spliced EXCEPT !.meta_alloc[avail_ind] = @ \ mv]
             this == [NoReq EXCEPT !.cmd = "get_log_trees", !.rid = t]
         IN CASE out = "lookup_err" ->
                   /\ UNCHANGED <<super, alloc, used, pending>>
                   /\ req' = [req EXCEPT ![t] = this]
                   /\ err' = [err EXCEPT ![t] = EIO]
              [] out = "fill_err" ->
                   /\ super' = spliced
                   /\ pending' = pending \cup old.meta_freed
                   /\ req' = [req EXCEPT ![t] = this]
                   /\ err' = [err EXCEPT ![t] = EIO]
                   /\ UNCHANGED <<alloc, used>>
              [] out = "force_err" ->
                   /\ super' = filled
                   /\ pending' = pending \cup old.meta_freed
                   /\ req' = [req EXCEPT ![t] = [this EXCEPT !.lt = lt]]
                   /\ err' = [err EXCEPT ![t] = EIO]
                   /\ UNCHANGED <<alloc, used>>
              [] out = "ok" ->
                   /\ super' = [filled EXCEPT !.logs[key] = lt]
                   /\ alloc' = CowAlloc(alloc, used[0], cow)
                   /\ used' = [used EXCEPT ![0] = CowUsed(alloc, used[0], cow)]
                   /\ pending' = pending \cup old.meta_freed
                                         \cup CowFreed(alloc, used[0], cow)
                   /\ req' = [req EXCEPT ![t] = [this EXCEPT !.lt = lt]]
                   /\ err' = [err EXCEPT ![t] = 0]
    /\ pc' = [pc EXCEPT ![t] = "apply"]
    /\ UNCHANGED <<life_vars, taken, last, seq_vars, more_vars, hret, nreq, cw, commit_vars, forcing, disk, root_vars,
                   avail_ind, other_ind, client_lt, gone, run_vars, covered, failed>>

\* server_commit_log_trees between hold_commit and apply_commit.  The client
\* sends the log_trees of its transaction: it has allocated blocks from
\* meta_avail for its trees (a) and freed older blocks of its trees to
\* meta_freed (f).  key is (lt.rid, lt.nr) of the payload: the handler looks
\* the item at that key up and overwrites it with the payload.
CommitLogTrees(t, key) ==
    /\ t \in Handlers
    /\ pc[t] = "held"
    /\ client_lt[t].present
    /\ \E a \in {{}, Take(client_lt[t].meta_avail, 1)}, f \in {{}, Take(used[t], 1)} :
         LET lt == [client_lt[t] EXCEPT !.meta_avail = @ \ a, !.meta_freed = @ \cup f]
             payload == [lt EXCEPT !.nr = key[2]]
             this == [NoReq EXCEPT !.cmd = "commit_log_trees", !.rid = t,
                                   !.lt = payload, !.key = key]
         IN /\ client_lt' = [client_lt EXCEPT ![t] = lt]
            /\ req' = [req EXCEPT ![t] = this]
            /\ IF ~super.logs[key].present
               THEN /\ err' = [err EXCEPT ![t] = ENOENT]
                    /\ UNCHANGED <<super, alloc, pending>>
                    /\ used' = [used EXCEPT ![t] = (@ \ f) \cup a]
               ELSE \E out \in {"lookup_err", "rotate_err", "update_err", "ok"},
                       cow \in BOOLEAN :
                       IF out = "ok"
                       THEN /\ super' = [super EXCEPT !.logs[key] = payload]
                            /\ alloc' = CowAlloc(alloc, used[0], cow)
                            /\ used' = [used EXCEPT
                                          ![t] = (@ \ f) \cup a,
                                          ![0] = CowUsed(alloc, used[0], cow)]
                            /\ pending' = pending \cup f \cup CowFreed(alloc, used[0], cow)
                            /\ err' = [err EXCEPT ![t] = 0]
                       ELSE /\ err' = [err EXCEPT ![t] = EIO]
                            /\ used' = [used EXCEPT ![t] = (@ \ f) \cup a]
                            /\ UNCHANGED <<super, alloc, pending>>
    /\ pc' = [pc EXCEPT ![t] = "apply"]
    /\ UNCHANGED <<life_vars, taken, last, seq_vars, more_vars, hret, nreq, cw, commit_vars, forcing,
                   disk, root_vars, avail_ind, other_ind, gone, run_vars, covered,
                   failed>>

\* COMMIT_LOG_TREES from a client that sends the rid and the nr of the
\* log_trees it was given
CommitLogTreesBody(t) == CommitLogTrees(t, <<t, client_lt[t].nr>>)

\* an insert that stores a second item when the rid has one
InsertMountedTwice(mc, rid, quorum) == mc \cup {Mounted(rid, quorum)}

\* insert_mounted_client when scoutfs_btree_insert does not fail: the item
\* is stored unless there is one at the key of the rid (-EEXIST, turned
\* into 0)
InsertMounted(mc, rid, quorum) ==
    IF \E m \in mc : m.rid = rid THEN mc ELSE mc \cup {Mounted(rid, quorum)}

\* scoutfs_btree_insert of the item of the rid when it does not fail for
\* lack of memory or I/O: -EEXIST when there is an item at the key
BtreeInsertRet(mc, rid) == IF \E m \in mc : m.rid = rid THEN EEXIST ELSE 0

\* an insert_mounted_client that returns what scoutfs_btree_insert returned
InsertMountedRetAll(r) == r

\* insert_mounted_client: "if (ret == -EEXIST) ret = 0"
InsertMountedRet(r) == IF r = EEXIST THEN 0 ELSE r

\* server_greeting between hold_commit and apply_commit, which it reaches
\* when the length, fsid and version of the greeting match and its
\* server_term is 0: insert the mounted client item of gr->rid
GreetingInsertAs(t, rid, quorum) ==
    /\ t \in Handlers
    /\ pc[t] = "held"
    /\ req' = [req EXCEPT ![t] = [NoReq EXCEPT !.cmd = "greeting", !.rid = rid]]
    /\ \E ok \in BOOLEAN :
         IF ok
         THEN /\ super' = [super EXCEPT
                             !.mounted_clients = InsertMounted(@, rid, quorum)]
              /\ err' = [err EXCEPT ![t] =
                            InsertMountedRet(BtreeInsertRet(super.mounted_clients, rid))]
         ELSE /\ UNCHANGED super
              /\ err' = [err EXCEPT ![t] = EIO]
    /\ pc' = [pc EXCEPT ![t] = "apply"]
    /\ UNCHANGED <<life_vars, taken, last, seq_vars, more_vars, hret, nreq, cw, commit_vars,
                   forcing, disk, root_vars, pool_vars, client_vars, pending,
                   run_vars, covered, failed>>

\* a greeting with any flags
GreetingInsert(t, rid) == \E quorum \in BOOLEAN : GreetingInsertAs(t, rid, quorum)

\* server_greeting that does not take the commit hold: a greeting of the
\* wrong length, fsid or version goes to send_err with -EINVAL; one with
\* server_term != 0 (a client that reconnects) goes on to the response
GreetingNoInsert(t, rid) ==
    /\ t \in Handlers
    /\ pc[t] = "idle"
    /\ nreq' = nreq + 1
    /\ \E kind \in {"bad_len", "fsid", "version", "reconnect"} :
         /\ req' = [req EXCEPT ![t] =
                       [NoReq EXCEPT !.cmd = "greeting", !.rid = rid,
                                     !.bad_len = (kind = "bad_len"),
                                     !.match = (kind \notin {"fsid", "version"}),
                                     !.term = IF kind = "reconnect" THEN 1 ELSE 0]]
         /\ hret' = [hret EXCEPT ![t] = IF kind = "reconnect" THEN 0 ELSE EINVAL]
    /\ pc' = [pc EXCEPT ![t] = "respond"]
    /\ UNCHANGED <<life_vars, taken, last, seq_vars, more_vars, err, cw, commit_vars, forcing,
                   super, disk, root_vars, pool_vars, client_vars, pending,
                   run_vars, covered, failed>>

\* ------------------------------------------------------------- farewells

\* the rids of the FAREWELL requests received
FarewellRids == {a.rid : a \in received}

\* the id a mount gives its FAREWELL request: the sender numbers the
\* requests of its connection
NetId(rid) == rid - Reclaimer

\* server_farewell: a request of the wrong length and one for which there
\* is no memory return an error and leave nothing behind; otherwise the
\* request goes to the tail of farewell_requests with the rid of the
\* connection and the id of the request, and the work is queued unless the
\* server is shutting down.  The response is left to farewell_worker.
ServerFarewell(rid) ==
    /\ \E out \in {"bad_len", "nomem", "ok"} :
         IF out = "ok"
         THEN /\ received' = received \cup {[rid |-> rid, id |-> NetId(rid)]}
              /\ farewell_requests' = Append(farewell_requests, Fw(rid, NetId(rid)))
              /\ farewell_queued' = (farewell_queued \/ ~shutting_down)
         ELSE UNCHANGED <<received, farewell_requests, farewell_queued>>
    /\ UNCHANGED <<fwk, shutting_down, sent, recov, taken, last, seq_vars, more_vars,
                   thread_vars, commit_vars, forcing, super, disk, root_vars,
                   pool_vars, client_vars, pending, run_vars, covered, failed>>

\* farewell_worker starts: the queued work runs, never twice at once, and
\* splices farewell_requests into reqs
FwRun ==
    /\ farewell_queued
    /\ fwk.pc = "idle"
    /\ farewell_queued' = FALSE
    /\ fwk' = [NoWork EXCEPT !.pc = "count", !.reqs = farewell_requests]
    /\ farewell_requests' = <<>>
    /\ UNCHANGED <<shutting_down, sent, recov, received, taken, last, seq_vars, more_vars,
                   thread_vars, commit_vars, forcing, super, disk, root_vars,
                   pool_vars, client_vars, pending, run_vars, covered, failed>>

\* farewell_worker, the loop that counts the mounted clients with and
\* without the quorum flag; an error of the btree goes to out
FwCount ==
    /\ fwk.pc = "count"
    /\ \E ok \in BOOLEAN :
         IF ok
         THEN fwk' = [fwk EXCEPT
                        !.pc = "walk",
                        !.counted = super.mounted_clients,
                        !.quo_mnts = Cardinality({m \in super.mounted_clients :
                                                    m.quorum}),
                        !.non_mnts = Cardinality({m \in super.mounted_clients :
                                                    ~m.quorum})]
         ELSE fwk' = [fwk EXCEPT !.pc = "out", !.ret = EIO]
    /\ UNCHANGED <<farewell_requests, farewell_queued, shutting_down, sent, recov,
                   received, taken, last, seq_vars, more_vars, thread_vars, commit_vars,
                   forcing, super, disk, root_vars, pool_vars, client_vars,
                   pending, run_vars, covered, failed>>

\* the walk of reqs over the entries todo, n of them at most: an entry
\* whose rid has no mounted client item is moved to the head of send, one of
\* a quorum member stays in reqs and is counted, one of another client is
\* moved to the head of send and taken off non_mnts, an unsigned int
RECURSIVE WalkReqs(_, _, _, _)
WalkReqs(w, todo, n, mc) ==
    IF n = 0 \/ todo = <<>> THEN [w EXCEPT !.reqs = @ \o todo]
    ELSE LET fw == Head(todo)
             item == {m \in mc : m.rid = fw.rid}
             next == IF item = {}
                     THEN [w EXCEPT !.send = <<fw>> \o @]
                     ELSE IF \E m \in item : m.quorum
                     THEN [w EXCEPT !.reqs = Append(@, fw), !.quo_reqs = @ + 1]
                     ELSE [w EXCEPT !.send = <<fw>> \o @,
                                    !.non_mnts = (@ - 1) % (U64_MAX + 1)]
         IN WalkReqs(next, Tail(todo), n - 1, mc)

\* farewell_worker, the walk of reqs: it looks up the mounted client item
\* of each request; a lookup that fails with another error than -ENOENT goes
\* to out with the entries before it moved
FwWalk ==
    /\ fwk.pc = "walk"
    /\ \E n \in 0..Len(fwk.reqs) :
         LET w == WalkReqs([fwk EXCEPT !.reqs = <<>>], fwk.reqs, n,
                           super.mounted_clients)
         IN IF n = Len(fwk.reqs)
            THEN fwk' = [w EXCEPT !.pc = "select"]
            ELSE fwk' = [w EXCEPT !.pc = "out", !.ret = EIO]
    /\ UNCHANGED <<farewell_requests, farewell_queued, shutting_down, sent, recov,
                   received, taken, last, seq_vars, more_vars, thread_vars, commit_vars,
                   forcing, super, disk, root_vars, pool_vars, client_vars,
                   pending, run_vars, covered, failed>>

\* scoutfs_quorum_votes_needed: the votes of a majority of the configured
\* quorum slots
VotesNeeded(s) == s.quorum_slots \div 2 + 1

\* a test that lets a quorum member go while a bare majority stays
CanSendAtMajority(w, votes) ==
    \/ w.quo_mnts >= votes
    \/ w.quo_reqs = w.quo_mnts /\ w.non_mnts = 0

\* the test of the second loop over reqs: enough quorum members stay
\* mounted for a majority, or the requests are from all the mounted clients
\* that are left
CanSend(w, votes) ==
    \/ w.quo_mnts > votes
    \/ w.quo_reqs = w.quo_mnts /\ w.non_mnts = 0

\* the second loop over reqs, entries todo: an entry that can be sent is
\* moved to the tail of send and taken off both counts
RECURSIVE SelectReqs(_, _, _)
SelectReqs(w, todo, votes) ==
    IF todo = <<>> THEN w
    ELSE LET fw == Head(todo)
             next == IF CanSend(w, votes)
                     THEN [w EXCEPT !.send = Append(@, fw),
                                    !.quo_mnts = (@ - 1) % (U64_MAX + 1),
                                    !.quo_reqs = (@ - 1) % (U64_MAX + 1)]
                     ELSE [w EXCEPT !.reqs = Append(@, fw)]
         IN SelectReqs(next, Tail(todo), votes)

\* a worker that sends the responses without reclaiming first
AfterSelectSend(w) == "send"

\* after the second loop: the reclaim loop over send, then the send loop
AfterSelect(w) == IF w.send = <<>> THEN "send" ELSE "reclaim"

\* farewell_worker, the second loop over reqs, which holds the requests of
\* quorum members only
FwSelect ==
    /\ fwk.pc = "select"
    /\ LET w == SelectReqs([fwk EXCEPT !.reqs = <<>>], fwk.reqs, VotesNeeded(super))
       IN fwk' = [w EXCEPT !.pc = AfterSelect(w), !.idx = 1]
    /\ UNCHANGED <<farewell_requests, farewell_queued, shutting_down, sent, recov,
                   received, taken, last, seq_vars, more_vars, thread_vars, commit_vars,
                   forcing, super, disk, root_vars, pool_vars, client_vars,
                   pending, run_vars, covered, failed>>

\* farewell_worker, the reclaim loop: reclaim_rid of the entry takes the
\* commit hold
FwHold ==
    /\ fwk.pc = "reclaim"
    /\ pc[Reclaimer] = "idle"
    /\ CanDownRead
    /\ commit_rwsem' = [commit_rwsem EXCEPT !.readers = @ \cup {Reclaimer}]
    /\ pc' = [pc EXCEPT ![Reclaimer] = "held"]
    /\ UNCHANGED <<life_vars, taken, last, seq_vars, more_vars, req, err, hret, nreq, cw,
                   commit_waiters, commit_pending, cpc, ret, forcing, super, disk,
                   root_vars, pool_vars, client_vars, pending, run_vars, covered,
                   failed>>

\* reclaim_rid of the entry the reclaim loop is at
FwReclaim == fwk.pc = "reclaim" /\ ReclaimRid(Reclaimer, fwk.send[fwk.idx].rid)

\* what is common to the ends of a reclaim_rid call of the reclaim loop
FwReclaimReturns ==
    /\ fwk.pc = "reclaim"
    /\ pc[Reclaimer] = "respond"
    /\ pc' = [pc EXCEPT ![Reclaimer] = "idle"]
    /\ failed' = IF hret[Reclaimer] # 0 THEN failed \cup Changes(req[Reclaimer])
                 ELSE failed
    /\ req' = [req EXCEPT ![Reclaimer] = NoReq]
    /\ err' = [err EXCEPT ![Reclaimer] = 0]
    /\ hret' = [hret EXCEPT ![Reclaimer] = 0]
    /\ cw' = [cw EXCEPT ![Reclaimer] = [done |-> FALSE, ret |-> 0]]
    /\ covered' = covered \ {Reclaimer}
    /\ UNCHANGED <<farewell_requests, farewell_queued, shutting_down, sent, recov,
                   received, taken, last, seq_vars, more_vars, nreq, commit_vars, forcing,
                   super, disk, root_vars, pool_vars, client_vars, pending,
                   run_vars>>

\* the next step of the reclaim loop after the entry at idx
NextEntry(w) ==
    [w EXCEPT !.idx = @ + 1,
              !.pc = IF w.idx = Len(w.send) THEN "send" ELSE "reclaim"]

\* a reclaim loop that goes on to the next entry whatever reclaim_rid
\* returned
FwReclaimedGoesOn ==
    /\ FwReclaimReturns
    /\ fwk' = IF hret[Reclaimer] # 0
              THEN NextEntry(fwk)
              ELSE NextEntry([fwk EXCEPT !.reclaimed = @ \cup {req[Reclaimer].rid}])

\* farewell_worker, the reclaim loop: reclaim_rid returned what apply_commit
\* gave; an error goes to out, success to the next entry of send and after
\* the last one to the send loop
FwReclaimed ==
    /\ FwReclaimReturns
    /\ fwk' = IF hret[Reclaimer] # 0
              THEN [fwk EXCEPT !.pc = "out", !.ret = hret[Reclaimer]]
              ELSE NextEntry([fwk EXCEPT !.reclaimed = @ \cup {req[Reclaimer].rid}])

\* a send loop that leaves the loop after a response and keeps the entry
FwSendKeeps ==
    /\ fwk.pc = "send"
    /\ fwk.send # <<>>
    /\ sent' = Append(sent, [rid |-> Head(fwk.send).rid, id |-> Head(fwk.send).id,
                             requeued |-> Head(fwk.send).requeued])
    /\ fwk' = [fwk EXCEPT !.pc = "out", !.ret = 0]
    /\ UNCHANGED <<farewell_requests, farewell_queued, shutting_down, recov,
                   received, taken, last, seq_vars, more_vars, thread_vars, commit_vars,
                   forcing, super, disk, root_vars, pool_vars, client_vars,
                   pending, run_vars, covered, failed>>

\* farewell_worker, the send loop at the first entry of send:
\* scoutfs_net_response_node with the rid and the id of the entry; the
\* entry is deleted when the response went out, and the loop is left when
\* it did not
FwSend ==
    /\ fwk.pc = "send"
    /\ fwk.send # <<>>
    /\ \E ok \in BOOLEAN :
         IF ok
         THEN /\ sent' = Append(sent, [rid |-> Head(fwk.send).rid,
                                       id |-> Head(fwk.send).id,
                                       requeued |-> Head(fwk.send).requeued])
              /\ fwk' = [fwk EXCEPT !.send = Tail(@), !.nsent = @ + 1]
         ELSE /\ sent' = sent
              /\ fwk' = [fwk EXCEPT !.pc = "out", !.ret = 0]
    /\ UNCHANGED <<farewell_requests, farewell_queued, shutting_down, recov,
                   received, taken, last, seq_vars, more_vars, thread_vars, commit_vars,
                   forcing, super, disk, root_vars, pool_vars, client_vars,
                   pending, run_vars, covered, failed>>

\* farewell_worker, the end of the send loop: ret = 0
FwSendDone ==
    /\ fwk.pc = "send"
    /\ fwk.send = <<>>
    /\ fwk' = [fwk EXCEPT !.pc = "out", !.ret = 0]
    /\ UNCHANGED <<farewell_requests, farewell_queued, shutting_down, sent, recov,
                   received, taken, last, seq_vars, more_vars, thread_vars, commit_vars,
                   forcing, super, disk, root_vars, pool_vars, client_vars,
                   pending, run_vars, covered, failed>>

\* the entries of a list as they are when a run put them back from send
Requeued(l) == [i \in 1..Len(l) |-> [l[i] EXCEPT !.requeued = TRUE]]

\* farewell_worker at out: reqs and then send are spliced onto the head of
\* farewell_requests; with an error the server stops, otherwise the work is
\* queued again when requests came in during the run
FwOut ==
    /\ fwk.pc = "out"
    /\ farewell_requests' = Requeued(fwk.send) \o fwk.reqs \o farewell_requests
    /\ IF fwk.ret < 0
       THEN /\ shutting_down' = TRUE
            /\ UNCHANGED farewell_queued
       ELSE /\ UNCHANGED shutting_down
            /\ farewell_queued' = (farewell_queued \/
                                   (farewell_requests # <<>> /\ ~shutting_down))
    /\ fwk' = NoWork
    /\ UNCHANGED <<sent, recov, received, taken, last, seq_vars, more_vars, thread_vars,
                   commit_vars, forcing, super, disk, root_vars, pool_vars,
                   client_vars, pending, run_vars, covered, failed>>

\* the commands of the handlers above, and the first thing each handler
\* does: a payload whose length is not the command's is answered with
\* -EINVAL, before the commit hold is taken
Commands == {"alloc_inodes", "advance_seq", "get_log_trees", "commit_log_trees"}

RefuseLength(t) ==
    /\ t \in Handlers
    /\ pc[t] = "idle"
    /\ t \notin gone
    /\ nreq' = nreq + 1
    /\ \E cmd \in Commands :
         req' = [req EXCEPT ![t] = [NoReq EXCEPT !.cmd = cmd, !.rid = t,
                                                  !.bad_len = TRUE]]
    /\ hret' = [hret EXCEPT ![t] = EINVAL]
    /\ pc' = [pc EXCEPT ![t] = "respond"]
    /\ UNCHANGED <<life_vars, taken, last, seq_vars, more_vars, err, cw, commit_vars, forcing, super, disk, root_vars,
                   pool_vars, client_vars, pending, run_vars, covered, failed>>

\* a request arrives with a payload of the wrong length
BadRequest(t) == nreq < MaxReqs /\ RefuseLength(t)

\* struct scoutfs_net_roots filled with zeroes
ZeroRoots == [fs_root |-> 0, logs_root |-> [k \in Rids \X Nrs |-> NoLt],
              srch_root |-> 0]

\* a get_roots that reads the roots of the in-memory super block
ServerGetRootsDirty ==
    /\ got' = [arg_len |-> 0, error |-> 0, roots |-> RootsOf(super),
               stable |-> IF cpc = "set_roots" THEN prev_roots ELSE RootsOf(disk)]
    /\ UNCHANGED <<life_vars, taken, last, seq_vars, more_vars, thread_vars, commit_vars, forcing, super, disk, prev_roots,
                   roots, pool_vars, client_vars, pending, run_vars, covered,
                   failed>>

\* server_get_roots: no commit hold.  A payload of the wrong length gets
\* zeroed roots; the response is sent with error 0 in both cases.  (stable
\* records for the properties which roots were the last written ones that
\* set_roots had been called for.)
ServerGetRoots ==
    /\ \E arg_len \in 0..1 :
         got' = [arg_len |-> arg_len, error |-> 0,
                 roots |-> IF arg_len # 0 THEN ZeroRoots ELSE roots,
                 stable |-> IF cpc = "set_roots" THEN prev_roots ELSE RootsOf(disk)]
    /\ UNCHANGED <<life_vars, taken, last, seq_vars, more_vars, thread_vars, commit_vars, forcing, super, disk, prev_roots,
                   roots, pool_vars, client_vars, pending, run_vars, covered,
                   failed>>

\* --------------------------------------------------- recovery and fencing
\* (recov.c and fence.c are outside the sources; their calls follow the
\* contract the server relies on)

\* SCOUTFS_RECOV_ALL: the steps a client has to finish
RecovAll == {"greeting", "locks", "omap"}

\* scoutfs_recov_next_pending(sb, rid, which): the first rid after rid that
\* has a step pending, 0 when there is none
RecovNextPending(p, rid) ==
    LET S == {r \in DOMAIN p : r > rid /\ p[r] # {}}
    IN IF S = {} THEN 0 ELSE CHOOSE r \in S : \A q \in S : r <= q

\* scoutfs_recov_finish(sb, rid, which) returns more than 0 when the call
\* finished the last step that was pending
RecovFinishes(p, rid, which) ==
    /\ p[rid] \cap which # {}
    /\ \A r \in DOMAIN p : p[r] \ (IF r = rid THEN which ELSE {}) = {}

\* what the steps of recovery and fencing leave alone
beside_recov == <<volopt_vars, block_vars, lock_vars, zn>>
life_but_down == <<farewell_requests, farewell_queued, fwk, sent, recov, received>>

\* start_recovery and what scoutfs_server_worker does after it: every
\* mounted client is prepared with all the steps and the timer is set;
\* then the reclaim work is queued.  A lookup or a prepare that fails
\* stops the server with the clients before it prepared.
StartRecovery ==
    /\ rcv.timer = "start"
    /\ LET mounted == {m.rid : m \in super.mounted_clients}
       IN \E n \in 0..Cardinality(mounted) :
            /\ recov_pending' = [r \in RecovMounts |->
                                   IF r \in Take(mounted, n) THEN RecovAll ELSE {}]
            /\ IF n = Cardinality(mounted)
               THEN /\ rcv' = [rcv EXCEPT !.timer = IF n > 0 THEN "armed" ELSE "off"]
                    /\ rwk' = [rwk EXCEPT !.queued = ~shutting_down]
                    /\ UNCHANGED shutting_down
               ELSE /\ rcv' = [rcv EXCEPT !.timer = "off"]
                    /\ shutting_down' = TRUE
                    /\ UNCHANGED rwk
    /\ UNCHANGED <<fence, beside_recov, life_but_down, taken, last, seq_vars,
                   thread_vars, commit_vars, forcing, super, disk, root_vars,
                   pool_vars, client_vars, pending, run_vars, covered, failed>>

\* scoutfs_server_recov_finish for one step of a client that is not fenced
\* yet: when it was the last step pending, finished_recovery resumes the
\* work that waited, and stops the server when that fails
ServerRecovFinish(rid, which) ==
    /\ rcv.timer \in {"armed", "fired"}
    /\ fence[rid] \in {"none", "started"}
    /\ which \in recov_pending[rid]
    /\ recov_pending' = [recov_pending EXCEPT ![rid] = @ \ {which}]
    /\ IF RecovFinishes(recov_pending, rid, {which})
       THEN \E ok \in BOOLEAN : shutting_down' = (shutting_down \/ ~ok)
       ELSE UNCHANGED shutting_down
    /\ UNCHANGED <<fence, rcv, rwk, beside_recov, life_but_down, taken, last,
                   seq_vars, thread_vars, commit_vars, forcing, super, disk,
                   root_vars, pool_vars, client_vars, pending, run_vars, covered,
                   failed>>

\* recovery_timeout, called when the timer fires: the fence work is queued
\* unless the server is shutting down
RecoveryTimeout ==
    /\ rcv.timer = "armed"
    /\ rcv' = [rcv EXCEPT !.timer = "fired",
                          !.work = IF shutting_down THEN @ ELSE "queued",
                          !.at_timeout = IF shutting_down THEN @
                                         ELSE {r \in RecovMounts :
                                                 recov_pending[r] # {}}]
    /\ UNCHANGED <<recov_pending, fence, rwk, beside_recov, life_vars, taken, last,
                   seq_vars, thread_vars, commit_vars, forcing, super, disk,
                   root_vars, pool_vars, client_vars, pending, run_vars, covered,
                   failed>>

\* fence_pending_recov_worker starts: rid = 0
FenceWorkRun ==
    /\ rcv.work = "queued"
    /\ rcv' = [rcv EXCEPT !.work = "run", !.rid = 0]
    /\ UNCHANGED <<recov_pending, fence, rwk, beside_recov, life_vars, taken, last,
                   seq_vars, thread_vars, commit_vars, forcing, super, disk,
                   root_vars, pool_vars, client_vars, pending, run_vars, covered,
                   failed>>

\* a loop that asks for the first pending rid every time
FenceWorkNextFirst ==
    /\ rcv.work = "run"
    /\ LET r == RecovNextPending(recov_pending, 0)
       IN IF r = 0
          THEN /\ rcv' = [rcv EXCEPT !.work = "done"]
               /\ UNCHANGED <<fence, shutting_down>>
          ELSE \E ok \in BOOLEAN :
                 IF ok
                 THEN /\ fence' = [fence EXCEPT ![r] = "started"]
                      /\ rcv' = [rcv EXCEPT !.rid = r, !.started = Append(@, r)]
                      /\ UNCHANGED shutting_down
                 ELSE /\ shutting_down' = TRUE
                      /\ rcv' = [rcv EXCEPT !.work = "done"]
                      /\ UNCHANGED fence
    /\ UNCHANGED <<recov_pending, rwk, beside_recov, life_but_down, taken, last,
                   seq_vars, thread_vars, commit_vars, forcing, super, disk,
                   root_vars, pool_vars, client_vars, pending, run_vars, covered,
                   failed>>

\* fence_pending_recov_worker, one round of its loop: the next rid after
\* rid with a step pending gets a fence request; when scoutfs_fence_start
\* fails the server is aborted and the loop is left
FenceWorkNext ==
    /\ rcv.work = "run"
    /\ LET r == RecovNextPending(recov_pending, rcv.rid)
       IN IF r = 0
          THEN /\ rcv' = [rcv EXCEPT !.work = "done"]
               /\ UNCHANGED <<fence, shutting_down>>
          ELSE \E ok \in BOOLEAN :
                 IF ok
                 THEN /\ fence' = [fence EXCEPT ![r] = "started"]
                      /\ rcv' = [rcv EXCEPT !.rid = r, !.started = Append(@, r)]
                      /\ UNCHANGED shutting_down
                 ELSE /\ shutting_down' = TRUE
                      /\ rcv' = [rcv EXCEPT !.work = "done"]
                      /\ UNCHANGED fence
    /\ UNCHANGED <<recov_pending, rwk, beside_recov, life_but_down, taken, last,
                   seq_vars, thread_vars, commit_vars, forcing, super, disk,
                   root_vars, pool_vars, client_vars, pending, run_vars, covered,
                   failed>>

\* the fence of a rid is carried out outside the server: the request ends
\* fenced or with its error indicator set
Fenced(rid) ==
    /\ fence[rid] = "started"
    /\ \E st \in {"fenced", "error"} : fence' = [fence EXCEPT ![rid] = st]
    /\ UNCHANGED <<recov_pending, rcv, rwk, beside_recov, life_vars, taken, last,
                   seq_vars, thread_vars, commit_vars, forcing, super, disk,
                   root_vars, pool_vars, client_vars, pending, run_vars, covered,
                   failed>>

\* queue_reclaim_work: the work is queued unless the server is shutting down
QueueReclaimWork(w, down) == [w EXCEPT !.queued = (@ \/ ~down)]

\* reclaim_worker starts and scoutfs_fence_next gives it a request that is
\* fenced or has its error indicator set: with the indicator the server is
\* aborted, otherwise reclaim_rid is called.  (A run that finds no request
\* queues itself again and changes nothing.)
RwRun ==
    /\ rwk.queued
    /\ rwk.pc = "idle"
    /\ \E rid \in RecovMounts :
         /\ fence[rid] \in {"fenced", "error"}
         /\ IF fence[rid] = "error"
            THEN /\ shutting_down' = TRUE
                 /\ rwk' = QueueReclaimWork([rwk EXCEPT !.queued = FALSE, !.rid = rid],
                                            TRUE)
            ELSE /\ rwk' = [rwk EXCEPT !.queued = FALSE, !.pc = "reclaim", !.rid = rid]
                 /\ UNCHANGED shutting_down
    /\ UNCHANGED <<recov_pending, fence, rcv, beside_recov, life_but_down, taken,
                   last, seq_vars, thread_vars, commit_vars, forcing, super, disk,
                   root_vars, pool_vars, client_vars, pending, run_vars, covered,
                   failed>>

\* reclaim_rid of the fenced rid takes the commit hold
RwHold ==
    /\ rwk.pc = "reclaim"
    /\ pc[Reclaimer] = "idle"
    /\ CanDownRead
    /\ commit_rwsem' = [commit_rwsem EXCEPT !.readers = @ \cup {Reclaimer}]
    /\ pc' = [pc EXCEPT ![Reclaimer] = "held"]
    /\ UNCHANGED <<life_vars, taken, last, seq_vars, more_vars, req, err, hret,
                   nreq, cw, commit_waiters, commit_pending, cpc, ret, forcing,
                   super, disk, root_vars, pool_vars, client_vars, pending,
                   run_vars, covered, failed>>

\* reclaim_rid of the fenced rid
RwReclaim == rwk.pc = "reclaim" /\ ReclaimRid(Reclaimer, rwk.rid)

\* what is common to the ends of reclaim_worker after reclaim_rid
RwReturns ==
    /\ rwk.pc = "reclaim"
    /\ pc[Reclaimer] = "respond"
    /\ pc' = [pc EXCEPT ![Reclaimer] = "idle"]
    /\ failed' = IF hret[Reclaimer] # 0 THEN failed \cup Changes(req[Reclaimer])
                 ELSE failed
    /\ req' = [req EXCEPT ![Reclaimer] = NoReq]
    /\ err' = [err EXCEPT ![Reclaimer] = 0]
    /\ hret' = [hret EXCEPT ![Reclaimer] = 0]
    /\ cw' = [cw EXCEPT ![Reclaimer] = [done |-> FALSE, ret |-> 0]]
    /\ covered' = covered \ {Reclaimer}
    /\ UNCHANGED <<rcv, beside_recov, life_but_down, taken, last, seq_vars, nreq,
                   commit_vars, forcing, super, disk, root_vars, pool_vars,
                   client_vars, pending, run_vars>>

\* a reclaim_worker that frees the fence request whatever reclaim_rid
\* returned
RwReclaimedFrees ==
    /\ RwReturns
    /\ fence' = [fence EXCEPT ![rwk.rid] = "freed"]
    /\ recov_pending' = [recov_pending EXCEPT ![rwk.rid] = {}]
    /\ shutting_down' = (shutting_down \/ hret[Reclaimer] < 0)
    /\ rwk' = QueueReclaimWork([rwk EXCEPT !.pc = "idle"], shutting_down')

\* reclaim_worker after reclaim_rid: an error aborts the server; with
\* success the fence request is freed and the rid has finished every step
\* of recovery, which ends recovery when it was the last one pending.  The
\* work is queued again unless the server is shutting down.
RwReclaimed ==
    /\ RwReturns
    /\ IF hret[Reclaimer] < 0
       THEN /\ shutting_down' = TRUE
            /\ UNCHANGED <<fence, recov_pending>>
       ELSE /\ fence' = [fence EXCEPT ![rwk.rid] = "freed"]
            /\ recov_pending' = [recov_pending EXCEPT ![rwk.rid] = {}]
            /\ IF RecovFinishes(recov_pending, rwk.rid, RecovAll)
               THEN \E ok \in BOOLEAN : shutting_down' = (shutting_down \/ ~ok)
               ELSE UNCHANGED shutting_down
    /\ rwk' = QueueReclaimWork([rwk EXCEPT !.pc = "idle"], shutting_down')

\* ------------------------------------------------------------ block layer
\* (block.c; buddy.c, crc.c and the buffer cache of the kernel are outside
\* the sources)

ENOMEM == -12
ENOSPC == -28
EAGAIN == -11

\* what the steps of the block layer leave alone
beside_block == <<thread_vars, commit_vars, forcing, super, disk, root_vars,
                  pool_vars, client_vars, pending, run_vars, covered, failed,
                  seq_vars, life_vars, taken, last, volopt_vars, recov_vars,
                  lock_vars, zn>>

\* verify_block_header of the buffer of blkno b with contents c
VerifyBlockHeader(c, b) ==
    IF ~c.crc THEN EIO
    ELSE IF SuperFsid # 0 /\ c.fsid # SuperFsid THEN EIO
    ELSE IF c.blkno # b THEN EIO
    ELSE 0

\* the blocks of block_dirty_tree, and rb_first and rb_next on it (0 for
\* NULL)
DirtyTree(bs) == {b \in Blknos : bs[b].dirty}
RbNext(bs, b) ==
    LET S == {x \in DirtyTree(bs) : x > b}
    IN IF S = {} THEN 0 ELSE CHOOSE x \in S : \A y \in S : x <= y

\* scoutfs_block_read(sb, b): sb_bread gives the buffer of the cache when
\* it is uptodate and reads the device otherwise, which can fail; a buffer
\* not yet verified has its header verified and is marked when that passes
ReadBlock(bs, dev, b, io_ok) ==
    LET had == bs[b].uptodate
        bh == IF had THEN bs[b] ELSE [bs[b] EXCEPT !.uptodate = TRUE, !.c = dev[b]]
    IN IF ~had /\ ~io_ok
       THEN [bufs |-> bs, ret |-> EIO, fetched |-> TRUE, badhdr |-> FALSE]
       ELSE IF bh.verified
       THEN [bufs |-> [bs EXCEPT ![b] = bh], ret |-> 0, fetched |-> ~had,
             badhdr |-> FALSE]
       ELSE IF VerifyBlockHeader(bh.c, b) = 0
       THEN [bufs |-> [bs EXCEPT ![b] = [bh EXCEPT !.verified = TRUE]], ret |-> 0,
             fetched |-> ~had, badhdr |-> FALSE]
       ELSE [bufs |-> [bs EXCEPT ![b] = bh], ret |-> EIO, fetched |-> ~had,
             badhdr |-> TRUE]

\* the result of a call as the history keeps it
Res(op, b, r) == [NoRes EXCEPT !.op = op, !.blkno = b, !.ret = r]
ReadRes(op, b, rdb) ==
    [NoRes EXCEPT !.op = op, !.blkno = b, !.ret = rdb.ret, !.fetched = rdb.fetched,
                  !.badhdr = rdb.badhdr]

\* scoutfs_block_read of a caller, who reads blocks that were written or
\* are dirty
BlockRead(b) ==
    /\ bdev[b] # NoBlock \/ bufs[b].dirty
    /\ \E io_ok \in BOOLEAN :
         LET rdb == ReadBlock(bufs, bdev, b, io_ok)
         IN /\ bufs' = rdb.bufs
            /\ bres' = ReadRes("read", b, rdb)
    /\ UNCHANGED <<bdev, sbi, wd, buddy, bref, beside_block>>

\* scoutfs_block_read_ref with a reference to b of seq s: a block whose
\* seq is not that of the reference has BH_Uptodate cleared
BlockReadRef(b, s) ==
    /\ bdev[b] # NoBlock \/ bufs[b].dirty
    /\ \E io_ok \in BOOLEAN :
         LET rdb == ReadBlock(bufs, bdev, b, io_ok)
         IN IF rdb.ret = 0 /\ rdb.bufs[b].c.seq # s
            THEN /\ bufs' = [rdb.bufs EXCEPT ![b].uptodate = FALSE]
                 /\ bres' = [ReadRes("read_ref", b, rdb) EXCEPT !.ret = EAGAIN]
            ELSE /\ bufs' = rdb.bufs
                 /\ bres' = ReadRes("read_ref", b, rdb)
    /\ UNCHANGED <<bdev, sbi, wd, buddy, bref, beside_block>>

\* the kernel drops a buffer nothing holds: a dirty block is held by the
\* tree
Evict(b) ==
    /\ bufs[b] # NoBuf
    /\ ~bufs[b].dirty
    /\ bufs' = [bufs EXCEPT ![b] = NoBuf]
    /\ bres' = Res("evict", b, 0)
    /\ UNCHANGED <<bdev, sbi, wd, buddy, bref, beside_block>>

\* a stable block of the device goes bad: its crc, its fsid or its blkno
Corrupt(b) ==
    /\ \A x \in Blknos : bdev[x] = NoBlock \/ VerifyBlockHeader(bdev[x], x) = 0
    /\ bdev[b] # NoBlock
    /\ b \notin DirtyTree(bufs)
    /\ \E c \in {[bdev[b] EXCEPT !.crc = FALSE], [bdev[b] EXCEPT !.fsid = OtherFsid],
                  [bdev[b] EXCEPT !.blkno = (b % NumBlknos) + 1]} :
         bdev' = [bdev EXCEPT ![b] = c]
    /\ bres' = Res("corrupt", b, 0)
    /\ UNCHANGED <<bufs, sbi, wd, buddy, bref, beside_block>>

\* scoutfs_block_dirty(sb, b) when sb_getblk and insert_bhp succeed: the
\* buffer is in the dirty tree, its header is that of the super block with
\* blkno and the dirty seq, and it is uptodate and verified; the rest of
\* the block is what the buffer held
BlockDirty(bs, b, seq) ==
    [bs EXCEPT ![b] = [@ EXCEPT !.uptodate = TRUE, !.verified = TRUE, !.dirty = TRUE,
                                !.c = [@ EXCEPT !.crc = FALSE, !.fsid = SuperFsid,
                                                !.blkno = b, !.seq = seq]]]

\* scoutfs_buddy_free(sb, seq, blkno, 0)
BuddyFree(bd, seq, b) == [bd EXCEPT !.freed = @ \cup {<<b, seq>>}]

\* a scoutfs_block_dirty_ref that leaves the header of the block it copied
DirtyRefCopiesHeader(old, blkno, seq) == old

\* scoutfs_block_dirty_ref: the copy of the block gets the new blkno and the
\* dirty seq in its header
DirtyRefHeader(old, blkno, seq) == [old EXCEPT !.crc = FALSE, !.blkno = blkno, !.seq = seq]

\* scoutfs_block_dirty_ref(sb, ref) of the reference of the caller, in a
\* transaction: the block is read; with the dirty seq in the reference it
\* is returned; otherwise a block is allocated, made dirty, the old block
\* freed with the seq of its header and copied, and the reference updated.
\* An allocation that fails changes nothing, a scoutfs_block_dirty that
\* fails leaves the block allocated, and a free that fails frees the new
\* block and leaves it in the dirty tree.
DirtyRef ==
    /\ wd.pc = "idle"
    /\ \E io_ok \in BOOLEAN :
         LET rdb == ReadBlock(bufs, bdev, bref.blkno, io_ok)
             old == rdb.bufs[bref.blkno].c
         IN IF rdb.ret < 0 \/ bref.seq = sbi.seq
            THEN /\ bufs' = rdb.bufs
                 /\ bres' = ReadRes("dirty_ref", bref.blkno, rdb)
                 /\ UNCHANGED <<buddy, bref>>
            ELSE \/ /\ bufs' = rdb.bufs
                    /\ bres' = Res("dirty_ref", bref.blkno, ENOSPC)
                    /\ UNCHANGED <<buddy, bref>>
                 \/ \E blkno \in buddy.free :
                      \/ /\ bufs' = rdb.bufs
                         /\ buddy' = [buddy EXCEPT !.free = @ \ {blkno}]
                         /\ bres' = Res("dirty_ref", bref.blkno, ENOMEM)
                         /\ UNCHANGED bref
                      \/ /\ bufs' = BlockDirty(rdb.bufs, blkno, sbi.seq)
                         /\ buddy' = BuddyFree([buddy EXCEPT !.free = @ \ {blkno}],
                                               sbi.seq, blkno)
                         /\ bres' = Res("dirty_ref", bref.blkno, EIO)
                         /\ UNCHANGED bref
                      \/ /\ bufs' = [BlockDirty(rdb.bufs, blkno, sbi.seq) EXCEPT
                                       ![blkno].c = DirtyRefHeader(old, blkno, sbi.seq)]
                         /\ buddy' = BuddyFree([buddy EXCEPT !.free = @ \ {blkno}],
                                               old.seq, old.blkno)
                         /\ bref' = [blkno |-> blkno, seq |-> sbi.seq]
                         /\ bres' = Res("dirty_ref", blkno, 0)
    /\ UNCHANGED <<bdev, sbi, wd, beside_block>>

\* scoutfs_block_dirty_alloc in a transaction, then the caller fills the
\* block
DirtyAlloc ==
    /\ wd.pc = "idle"
    /\ \/ /\ bres' = Res("dirty_alloc", 0, ENOSPC)
          /\ UNCHANGED <<bufs, buddy>>
       \/ \E blkno \in buddy.free, d \in 0..MaxData :
            /\ bufs' = [BlockDirty(bufs, blkno, sbi.seq) EXCEPT ![blkno].c.data = d]
            /\ buddy' = [buddy EXCEPT !.free = @ \ {blkno}]
            /\ bres' = Res("dirty_alloc", blkno, 0)
    /\ UNCHANGED <<bdev, sbi, wd, bref, beside_block>>

\* scoutfs_block_write_dirty starts: block_writes is 1, block_write_err
\* and ret are 0, node is rb_first
WriteDirtyStart ==
    /\ wd.pc = "idle"
    /\ sbi.seq < MaxBlockSeq
    /\ sbi' = [sbi EXCEPT !.block_writes = 1, !.block_write_err = 0]
    /\ wd' = [NoWrite EXCEPT !.pc = "loop", !.node = RbNext(bufs, 0)]
    /\ bres' = Res("write_dirty", 0, 0)
    /\ UNCHANGED <<bdev, bufs, buddy, bref, beside_block>>

\* block_write_end_io(bh, uptodate) on the state st of the sb_info and the
\* buffers bs: the buffer is unlocked; a write that succeeded takes the
\* block out of the dirty tree, one that failed sets block_write_err;
\* block_writes is decremented
EndIoBufs(bs, b, uptodate) ==
    [bs EXCEPT ![b].locked = FALSE, ![b].dirty = IF uptodate THEN FALSE ELSE @]

\* a block_write_end_io that counts only the writes that succeeded
EndIoSbiKeeps(st, uptodate) ==
    [st EXCEPT !.block_writes = IF uptodate THEN @ - 1 ELSE @,
               !.block_write_err = IF ~uptodate /\ @ = 0 THEN EIO ELSE @]

EndIoSbi(st, uptodate) ==
    [st EXCEPT !.block_writes = @ - 1,
               !.block_write_err = IF ~uptodate /\ @ = 0 THEN EIO ELSE @]

\* one round of the loop of scoutfs_block_write_dirty: node moves to
\* rb_next, block_writes is incremented, the crc is set, the buffer is
\* locked and submitted.  A submit_bh that returns an error ended the
\* write with an error before it returned, and the loop is left.
WriteDirtySubmit ==
    /\ wd.pc = "loop"
    /\ wd.node # 0
    /\ LET b == wd.node
           sub == [bufs EXCEPT ![b].c.crc = TRUE, ![b].locked = TRUE]
           inc == [sbi EXCEPT !.block_writes = @ + 1]
       IN \/ /\ bufs' = sub
             /\ sbi' = inc
             /\ wd' = [wd EXCEPT !.node = RbNext(bufs, b), !.ret = 0,
                                 !.inflight = @ \cup {b}]
          \/ /\ bufs' = EndIoBufs(sub, b, FALSE)
             /\ sbi' = EndIoSbi(inc, FALSE)
             /\ wd' = [wd EXCEPT !.node = RbNext(bufs, b), !.ret = EIO, !.pc = "drain",
                                 !.failed = @ \cup {b}]
    /\ UNCHANGED <<bdev, buddy, bref, bres, beside_block>>

\* a write in flight ends and block_write_end_io is called
BlockWriteEndIo(b, uptodate) ==
    /\ b \in wd.inflight
    /\ bufs' = EndIoBufs(bufs, b, uptodate)
    /\ sbi' = EndIoSbi(sbi, uptodate)
    /\ bdev' = IF uptodate THEN [bdev EXCEPT ![b] = bufs[b].c] ELSE bdev
    /\ wd' = [wd EXCEPT !.inflight = @ \ {b},
                        !.failed = IF uptodate THEN @ ELSE @ \cup {b}]
    /\ UNCHANGED <<buddy, bref, bres, beside_block>>

\* scoutfs_block_write_dirty after its loop: atomic_dec of block_writes
WriteDirtyDrain ==
    /\ \/ wd.pc = "loop" /\ wd.node = 0
       \/ wd.pc = "drain"
    /\ sbi' = [sbi EXCEPT !.block_writes = @ - 1]
    /\ wd' = [wd EXCEPT !.pc = "wait"]
    /\ UNCHANGED <<bdev, bufs, buddy, bref, bres, beside_block>>

\* scoutfs_block_write_dirty returns ret, the result of the last submit_bh;
\* block_write_err is not read
WriteDirtyRet(w, st) == w.ret

\* scoutfs_block_write_dirty: wait_event until block_writes is 0, then
\* return
WriteDirtyReturn ==
    /\ wd.pc = "wait"
    /\ sbi.block_writes = 0
    /\ bres' = [Res("write_dirty", 0, WriteDirtyRet(wd, sbi)) EXCEPT
                  !.failed = wd.failed]
    /\ wd' = [NoWrite EXCEPT !.pc = "returned"]
    /\ UNCHANGED <<bdev, bufs, sbi, buddy, bref, beside_block>>

\* the caller of scoutfs_block_write_dirty ends the commit: when it got 0
\* it writes the super block and the next transaction has the next seq;
\* then blocks can be made dirty again
AdvanceSeq ==
    /\ wd.pc = "returned"
    /\ sbi' = [sbi EXCEPT !.seq = IF bres.ret = 0 THEN @ + 1 ELSE @]
    /\ wd' = NoWrite
    /\ UNCHANGED <<bdev, bufs, buddy, bref, bres, beside_block>>

\* -------------------------------------------------------- volume options

\* the payloads of SET_VOLOPT and CLEAR_VOLOPT: no bit, the bit of
\* data_alloc_zone_blocks, or a bit of SCOUTFS_VOLOPT_EXPANSION_BITS, and a
\* value for data_alloc_zone_blocks
VoloptArgs ==
    [set_bits : {{}, {"data_alloc_zone_blocks"}, {"expansion"}},
     data_alloc_zone_blocks : 0..(MaxDataBlocks + 1)]

\* what the variables outside the volume options keep in these steps
beside_volopt == <<recov_vars, block_vars, lock_vars, zn>>

\* server_set_volopt, the three checks of data_alloc_zone_blocks: at least
\* the fill target, at least total_data_blocks / MAX_ZONES, at most
\* total_data_blocks
ZoneBlocksValid(opt, total) ==
    /\ ~(opt < DataFillTarget)
    /\ ~(opt < total \div DataAllocMaxZones)
    /\ ~(opt > total)

\* server_set_volopt and server_clear_volopt before the mutex: a payload of
\* the wrong length or with expansion bits is answered with -EINVAL
VoloptRefused(t) ==
    /\ t \in Handlers
    /\ pc[t] = "idle"
    /\ nreq < MaxVoloptReqs
    /\ nreq' = nreq + 1
    /\ \E cmd \in {"set_volopt", "clear_volopt"}, bad \in BOOLEAN,
          bits \in {a.set_bits : a \in VoloptArgs} :
         /\ bad \/ "expansion" \in bits
         /\ req' = [req EXCEPT ![t] = [NoReq EXCEPT !.cmd = cmd, !.bad_len = bad,
                                                    !.volopt.set_bits = bits]]
    /\ hret' = [hret EXCEPT ![t] = EINVAL]
    /\ pc' = [pc EXCEPT ![t] = "respond"]
    /\ UNCHANGED <<volopt_vars, beside_volopt, life_vars, taken, last, seq_vars,
                   err, cw, commit_vars, forcing, super, disk, root_vars,
                   pool_vars, client_vars, pending, run_vars, covered, failed>>

\* server_set_volopt and server_clear_volopt: mutex_lock(&server->volopt_mutex)
VoloptLock(t) ==
    /\ t \in Handlers
    /\ pc[t] = "idle"
    /\ nreq < MaxVoloptReqs
    /\ nreq' = nreq + 1
    /\ volopt_mutex = 0
    /\ volopt_mutex' = t
    /\ volopt_pre' = [super |-> super.volopt, server |-> volopt]
    /\ \E cmd \in {"set_volopt", "clear_volopt"}, a \in VoloptArgs :
         /\ "expansion" \notin a.set_bits
         /\ req' = [req EXCEPT ![t] = [NoReq EXCEPT !.cmd = cmd, !.volopt = a]]
    /\ pc' = [pc EXCEPT ![t] = "volopt_mutex"]
    /\ UNCHANGED <<volopt, beside_volopt, life_vars, taken, last, seq_vars, err,
                   hret, cw, commit_vars, forcing, super, disk, root_vars,
                   pool_vars, client_vars, pending, run_vars, covered, failed>>

\* scoutfs_server_hold_commit with the mutex held
VoloptHold(t) ==
    /\ pc[t] = "volopt_mutex"
    /\ CanDownRead
    /\ commit_rwsem' = [commit_rwsem EXCEPT !.readers = @ \cup {t}]
    /\ pc' = [pc EXCEPT ![t] = "held"]
    /\ UNCHANGED <<volopt_vars, beside_volopt, life_vars, taken, last, seq_vars,
                   req, err, hret, nreq, cw, commit_waiters, commit_pending, cpc,
                   ret, forcing, super, disk, root_vars, pool_vars, client_vars,
                   pending, run_vars, covered, failed>>

\* server_set_volopt between hold_commit and apply_commit: a value of
\* data_alloc_zone_blocks that passes the checks is stored in the volopt of
\* the super block with its bit, one that does not gives -EINVAL
SetVoloptBody(t) ==
    /\ pc[t] = "held"
    /\ req[t].cmd = "set_volopt"
    /\ LET a == req[t].volopt
           opt == a.data_alloc_zone_blocks
       IN IF "data_alloc_zone_blocks" \notin a.set_bits
          THEN /\ err' = [err EXCEPT ![t] = 0]
               /\ UNCHANGED super
          ELSE IF ZoneBlocksValid(opt, super.total_data_blocks)
          THEN /\ err' = [err EXCEPT ![t] = 0]
               /\ super' = [super EXCEPT
                      !.volopt.data_alloc_zone_blocks = opt,
                      !.volopt.set_bits = @ \cup {"data_alloc_zone_blocks"}]
          ELSE /\ err' = [err EXCEPT ![t] = EINVAL]
               /\ UNCHANGED super
    /\ pc' = [pc EXCEPT ![t] = "apply"]
    /\ UNCHANGED <<volopt_vars, beside_volopt, life_vars, taken, last, seq_vars,
                   req, hret, nreq, cw, commit_vars, forcing, disk, root_vars,
                   pool_vars, client_vars, pending, run_vars, covered, failed>>

\* server_clear_volopt between hold_commit and apply_commit: the bits of the
\* payload are cleared in the volopt of the super block and their values
\* zeroed
ClearVoloptBody(t) ==
    /\ pc[t] = "held"
    /\ req[t].cmd = "clear_volopt"
    /\ super' = [super EXCEPT
           !.volopt.set_bits = @ \ req[t].volopt.set_bits,
           !.volopt.data_alloc_zone_blocks =
               IF "data_alloc_zone_blocks" \in req[t].volopt.set_bits THEN 0 ELSE @]
    /\ err' = [err EXCEPT ![t] = 0]
    /\ pc' = [pc EXCEPT ![t] = "apply"]
    /\ UNCHANGED <<volopt_vars, beside_volopt, life_vars, taken, last, seq_vars,
                   req, hret, nreq, cw, commit_vars, forcing, disk, root_vars,
                   pool_vars, client_vars, pending, run_vars, covered, failed>>

\* what is common to the ends of the two handlers: apply_commit has
\* returned and the mutex is released
VoloptUnlock(t) ==
    /\ pc[t] = "respond"
    /\ volopt_mutex = t
    /\ volopt_mutex' = 0
    /\ UNCHANGED <<volopt_pre, beside_volopt, life_vars, taken, last, seq_vars,
                   thread_vars, commit_vars, forcing, disk, root_vars, pool_vars,
                   client_vars, pending, run_vars, covered, failed>>

\* handlers that leave the volopt of the super block as it is when
\* apply_commit returned an error
VoloptPublishKeeps(t) ==
    /\ VoloptUnlock(t)
    /\ volopt' = IF hret[t] = 0 THEN super.volopt ELSE volopt
    /\ super' = super

\* server_set_volopt and server_clear_volopt after apply_commit, inside
\* write_seqcount_begin and write_seqcount_end: with ret = 0 server->volopt
\* becomes the volopt of the super block, with an error the volopt of the
\* super block is put back from server->volopt; then mutex_unlock
VoloptPublish(t) ==
    /\ VoloptUnlock(t)
    /\ volopt' = IF hret[t] = 0 THEN super.volopt ELSE volopt
    /\ super' = IF hret[t] = 0 THEN super ELSE [super EXCEPT !.volopt = volopt]

\* server_get_volopt: the copy of server->volopt that the seqcount loop
\* read goes out with 0; a payload of a wrong length is answered with
\* -EINVAL and a volopt that was never written: any value, of which the
\* model follows the ones with no bit set
ServerGetVolopt(t) ==
    /\ t \in Handlers
    /\ pc[t] = "idle"
    /\ nreq < MaxVoloptReqs
    /\ nreq' = nreq + 1
    /\ \E bad \in BOOLEAN :
         IF bad
         THEN /\ \E v \in {a \in VoloptArgs : a.set_bits = {}} :
                   req' = [req EXCEPT ![t] = [NoReq EXCEPT !.cmd = "get_volopt",
                                                          !.bad_len = TRUE,
                                                          !.volopt = v]]
              /\ hret' = [hret EXCEPT ![t] = EINVAL]
         ELSE /\ req' = [req EXCEPT ![t] = [NoReq EXCEPT !.cmd = "get_volopt",
                                                          !.volopt = volopt]]
              /\ hret' = [hret EXCEPT ![t] = 0]
    /\ pc' = [pc EXCEPT ![t] = "respond"]
    /\ UNCHANGED <<volopt_vars, beside_volopt, life_vars, taken, last, seq_vars,
                   err, cw, commit_vars, forcing, super, disk, root_vars,
                   pool_vars, client_vars, pending, run_vars, covered, failed>>

\* the mount starts a forced unmount: scoutfs_forcing_unmount(sb) turns true
ForceUnmount ==
    /\ ~forcing
    /\ forcing' = TRUE
    /\ UNCHANGED <<life_vars, taken, last, seq_vars, more_vars, thread_vars, commit_vars, super, disk, root_vars, pool_vars,
                   client_vars, pending, run_vars, covered, failed>>

\* ------------------------------------------------------ the commit worker
\* scoutfs_server_commit_func, one action per step.  cpc names the step the
\* worker is about to take.

\* the workqueue starts the queued commit_work; one instance runs at a time
CommitRun ==
    /\ cpc = "idle"
    /\ commit_pending
    /\ commit_pending' = FALSE
    /\ cpc' = "down_write"
    /\ UNCHANGED <<life_vars, taken, last, seq_vars, more_vars, thread_vars, commit_rwsem, commit_waiters, ret, forcing, super,
                   disk, root_vars, pool_vars, client_vars, pending, run_vars,
                   covered, failed>>

CommitDownWrite ==
    /\ cpc = "down_write"
    /\ CanDownWrite
    /\ commit_rwsem' = [commit_rwsem EXCEPT !.writer = TRUE]
    /\ cpc' = "forcing"
    /\ at_lock' = commit_waiters
    /\ UNCHANGED <<life_vars, taken, last, seq_vars, more_vars, thread_vars, commit_waiters, commit_pending, ret, forcing, super,
                   disk, root_vars, pool_vars, client_vars, pending, steps, nwrites,
                   batch, covered, failed>>

\* a step of the run failed: ret is set and the run goes to out
StepFails(e) ==
    /\ ret' = e
    /\ cpc' = "out"

CommitForcingUnmount ==
    /\ cpc = "forcing"
    /\ IF forcing
       THEN StepFails(EIO) /\ UNCHANGED steps
       ELSE cpc' = "fill_list" /\ steps' = steps \cup {"forcing"} /\ UNCHANGED ret
    /\ UNCHANGED <<life_vars, taken, last, seq_vars, more_vars, thread_vars, commit_rwsem, commit_waiters, commit_pending,
                   forcing, super, disk, root_vars, pool_vars, client_vars,
                   pending, nwrites, at_lock, batch, covered, failed>>

\* refill other_avail from meta_avail
CommitFillList ==
    /\ cpc = "fill_list"
    /\ \E ok \in BOOLEAN :
         IF ok
         THEN LET mv == FillList(OtherAvail, MetaAvail, MetaFillLo, MetaFillTarget)
              IN /\ super' = [super EXCEPT
                                !.meta_alloc[avail_ind] = @ \ mv,
                                !.server_meta_avail[other_ind] = @ \cup mv]
                 /\ cpc' = "empty_list"
                 /\ steps' = steps \cup {"fill_list"}
                 /\ UNCHANGED ret
         ELSE StepFails(EIO) /\ UNCHANGED <<super, steps>>
    /\ UNCHANGED <<life_vars, taken, last, seq_vars, more_vars, thread_vars, commit_rwsem, commit_waiters, commit_pending,
                   forcing, disk, root_vars, pool_vars, client_vars, pending,
                   nwrites, at_lock, batch, covered, failed>>

\* move other_freed into meta_freed, all of it or a part
CommitEmptyList ==
    /\ cpc = "empty_list"
    /\ \E ok \in BOOLEAN :
         IF ok
         THEN \E mv \in EmptyList(OtherFreed) :
                 /\ super' = [super EXCEPT
                                !.server_meta_freed[other_ind] = @ \ mv,
                                !.meta_alloc[1 - avail_ind] = @ \cup mv]
                 /\ cpc' = "prepare_commit"
                 /\ steps' = steps \cup {"empty_list"}
                 /\ UNCHANGED ret
         ELSE StepFails(EIO) /\ UNCHANGED <<super, steps>>
    /\ UNCHANGED <<life_vars, taken, last, seq_vars, more_vars, thread_vars, commit_rwsem, commit_waiters, commit_pending,
                   forcing, disk, root_vars, pool_vars, client_vars, pending,
                   nwrites, at_lock, batch, covered, failed>>

CommitPrepare ==
    /\ cpc = "prepare_commit"
    /\ \E ok \in BOOLEAN :
         IF ok
         THEN cpc' = "writer_write" /\ steps' = steps \cup {"prepare_commit"}
              /\ UNCHANGED ret
         ELSE StepFails(EIO) /\ UNCHANGED steps
    /\ UNCHANGED <<life_vars, taken, last, seq_vars, more_vars, thread_vars, commit_rwsem, commit_waiters, commit_pending,
                   forcing, super, disk, root_vars, pool_vars, client_vars,
                   pending, nwrites, at_lock, batch, covered, failed>>

\* a writer_write step whose failure does not stop the run
CommitWriterWriteGoesOn ==
    /\ cpc = "writer_write"
    /\ \E ok \in BOOLEAN :
         /\ cpc' = "write_super"
         /\ steps' = IF ok THEN steps \cup {"writer_write"} ELSE steps
         /\ ret' = IF ok THEN ret ELSE EIO
    /\ UNCHANGED <<life_vars, taken, last, seq_vars, more_vars, thread_vars, commit_rwsem, commit_waiters, commit_pending,
                   forcing, super, disk, root_vars, pool_vars, client_vars,
                   pending, nwrites, at_lock, batch, covered, failed>>

\* scoutfs_block_writer_write: write the dirty blocks
CommitWriterWrite ==
    /\ cpc = "writer_write"
    /\ \E ok \in BOOLEAN :
         IF ok
         THEN cpc' = "write_super" /\ steps' = steps \cup {"writer_write"}
              /\ UNCHANGED ret
         ELSE StepFails(EIO) /\ UNCHANGED steps
    /\ UNCHANGED <<life_vars, taken, last, seq_vars, more_vars, thread_vars, commit_rwsem, commit_waiters, commit_pending,
                   forcing, super, disk, root_vars, pool_vars, client_vars,
                   pending, nwrites, at_lock, batch, covered, failed>>

\* the super block with the active bank's heads stored from server->alloc
StoreHeads(s) ==
    [s EXCEPT !.server_meta_avail[1 - other_ind] = alloc.avail,
              !.server_meta_freed[1 - other_ind] = alloc.freed]

\* a write_super step whose failure does not stop the run
CommitWriteSuperGoesOn ==
    /\ cpc = "write_super"
    /\ super' = StoreHeads(super)
    /\ nwrites' = nwrites + 1
    /\ \E ok \in BOOLEAN :
         IF ok
         THEN /\ disk' = super'
              /\ prev_roots' = RootsOf(disk)
              /\ pending' = {}
              /\ covered' = covered \cup {t \in Threads : pc[t] = "wait"}
              /\ steps' = steps \cup {"write_super"}
         ELSE UNCHANGED <<disk, prev_roots, pending, covered, steps>>
    /\ cpc' = "set_roots"
    /\ UNCHANGED <<life_vars, taken, last, seq_vars, more_vars, thread_vars, commit_rwsem, commit_waiters, commit_pending, ret,
                   forcing, roots, got, pool_vars, client_vars, at_lock, batch,
                   failed>>

\* store the heads of the active bank in the super block and write it.  A
\* write that succeeds makes the in-memory super block the durable one.
CommitWriteSuper ==
    /\ cpc = "write_super"
    /\ super' = StoreHeads(super)
    /\ nwrites' = nwrites + 1
    /\ \E ok \in BOOLEAN :
         IF ok
         THEN /\ disk' = super'
              /\ prev_roots' = RootsOf(disk)
              /\ pending' = {}
              /\ covered' = covered \cup {t \in Threads : pc[t] = "wait"}
              /\ steps' = steps \cup {"write_super"}
              /\ cpc' = "set_roots"
              /\ UNCHANGED ret
         ELSE StepFails(EIO) /\ UNCHANGED <<disk, prev_roots, pending, covered, steps>>
    /\ UNCHANGED <<life_vars, taken, last, seq_vars, more_vars, thread_vars, commit_rwsem, commit_waiters, commit_pending,
                   forcing, roots, got, pool_vars, client_vars, at_lock, batch,
                   failed>>

\* set_roots: publish the roots of the super block that was written
CommitSetRoots ==
    /\ cpc = "set_roots"
    /\ roots' = RootsOf(super)
    /\ cpc' = "swizzle"
    /\ UNCHANGED <<life_vars, taken, last, seq_vars, more_vars, thread_vars, commit_rwsem, commit_waiters, commit_pending, ret,
                   forcing, super, disk, prev_roots, got, pool_vars, client_vars,
                   pending, run_vars, covered, failed>>

\* a swizzle step that reloads the heads and leaves the bank index as it was
CommitSwizzleKeepsBank ==
    /\ cpc = "swizzle"
    /\ alloc' = [avail |-> super.server_meta_avail[other_ind],
                 freed |-> super.server_meta_freed[other_ind]]
    /\ avail_ind' = IF /\ Cardinality(MetaAvail) <= MetaAllocMin
                       /\ Cardinality(MetaFreed) > MetaAllocMin
                    THEN 1 - avail_ind ELSE avail_ind
    /\ ret' = 0
    /\ cpc' = "out"
    /\ UNCHANGED <<life_vars, taken, last, seq_vars, more_vars, thread_vars, commit_rwsem, commit_waiters, commit_pending,
                   forcing, super, disk, root_vars, client_vars, pending,
                   run_vars, covered, failed, other_ind>>

\* make the idle bank the active one, swap meta_avail and meta_freed when
\* avail is low and freed is not, and set ret to 0
CommitSwizzle ==
    /\ cpc = "swizzle"
    /\ other_ind' = 1 - other_ind
    /\ alloc' = [avail |-> super.server_meta_avail[other_ind],
                 freed |-> super.server_meta_freed[other_ind]]
    /\ avail_ind' = IF /\ Cardinality(MetaAvail) <= MetaAllocMin
                       /\ Cardinality(MetaFreed) > MetaAllocMin
                    THEN 1 - avail_ind ELSE avail_ind
    /\ ret' = 0
    /\ cpc' = "out"
    /\ UNCHANGED <<life_vars, taken, last, seq_vars, more_vars, thread_vars, commit_rwsem, commit_waiters, commit_pending,
                   forcing, super, disk, root_vars, client_vars, pending,
                   run_vars, covered, failed>>

\* an out step that completes only the first waiter of the list
CommitOutFirstOnly ==
    /\ cpc = "out"
    /\ LET first == Take(commit_waiters, 1)
       IN /\ cw' = [t \in Threads |-> IF t \in first
                                      THEN [done |-> TRUE, ret |-> ret] ELSE cw[t]]
          /\ batch' = first
          /\ commit_waiters' = commit_waiters \ first
    /\ cpc' = "up_write"
    /\ UNCHANGED <<life_vars, taken, last, seq_vars, more_vars, pc, req, err, hret, nreq, commit_rwsem, commit_pending, ret,
                   forcing, super, disk, root_vars, pool_vars, client_vars,
                   pending, steps, nwrites, at_lock, covered, failed>>

\* out: take every linked waiter off the list and complete it with ret
CommitOut ==
    /\ cpc = "out"
    /\ cw' = [t \in Threads |-> IF t \in commit_waiters
                                THEN [done |-> TRUE, ret |-> ret] ELSE cw[t]]
    /\ batch' = commit_waiters
    /\ commit_waiters' = {}
    /\ cpc' = "up_write"
    /\ UNCHANGED <<life_vars, taken, last, seq_vars, more_vars, pc, req, err, hret, nreq, commit_rwsem, commit_pending, ret,
                   forcing, super, disk, root_vars, pool_vars, client_vars,
                   pending, steps, nwrites, at_lock, covered, failed>>

\* release the exclusive hold; the run returns and its locals are gone
CommitUpWrite ==
    /\ cpc = "up_write"
    /\ commit_rwsem' = [commit_rwsem EXCEPT !.writer = FALSE]
    /\ cpc' = "idle"
    /\ ret' = 0
    /\ steps' = {}
    /\ nwrites' = 0
    /\ at_lock' = {}
    /\ batch' = {}
    /\ UNCHANGED <<life_vars, taken, last, seq_vars, more_vars, thread_vars, commit_waiters, commit_pending, forcing,
                   super, disk, root_vars, pool_vars, client_vars, pending,
                   covered, failed>>

CommitWorker ==
    \/ CommitRun
    \/ CommitDownWrite
    \/ CommitForcingUnmount
    \/ CommitFillList
    \/ CommitEmptyList
    \/ CommitPrepare
    \/ CommitWriterWrite
    \/ CommitWriteSuper
    \/ CommitSetRoots
    \/ CommitSwizzle
    \/ CommitOut
    \/ CommitUpWrite

\* ---------------------------------------------------------- specification
\* The commit protocol: clients allocate inode numbers and advance their
\* transaction sequence numbers, and clients are reclaimed.
Next ==
    \/ \E t \in Threads : Request(t)
    \/ \E t \in Threads : AllocInodesBody(t)
    \/ \E t \in Threads : AdvanceSeqBody(t)
    \/ \E t \in Threads : ReclaimRidBody(t)
    \/ \E t \in Threads : ApplyCommit(t)
    \/ \E t \in Threads : WaitForCommit(t)
    \/ \E t \in Threads : Respond(t)
    \/ ForceUnmount
    \/ CommitWorker

Spec == Init /\ [][Next]_vars

\* The metadata allocators: clients get and commit log trees and read the
\* roots, and clients are reclaimed.  The server starts on a file system
\* that has been in use: client 1 has an item with freed blocks from its
\* last transaction, meta_avail is nearly empty and the server's bank 0
\* holds the other free blocks.
UsedSuper ==
    [FreshSuper EXCEPT
        !.logs[<<1, 1>>] = Lt({}, {1, 2}),
        !.meta_alloc = [i \in 0..1 |-> IF i = 0 THEN {3} ELSE {}],
        !.server_meta_avail = [i \in 0..1 |-> IF i = 0 THEN Blocks \ {1, 2, 3} ELSE {}]]

InitAlloc == Started(UsedSuper) /\ Idle

NextAlloc ==
    \/ \E t \in Threads : AllocRequest(t)
    \/ \E t \in Threads : GetLogTreesBody(t)
    \/ \E t \in Threads : CommitLogTreesBody(t)
    \/ \E t \in Threads : ReclaimRidBody(t)
    \/ \E t \in Threads : ApplyCommit(t)
    \/ \E t \in Threads : WaitForCommit(t)
    \/ \E t \in Threads : Respond(t)
    \/ CommitWorker

SpecAlloc == InitAlloc /\ [][NextAlloc]_vars

\* The published roots: clients get and commit log trees, which changes the
\* logs root, and read the roots; requests with a payload of the wrong
\* length arrive too.
NextRoots ==
    \/ \E t \in Threads : Request(t)
    \/ \E t \in Threads : BadRequest(t)
    \/ \E t \in Threads : GetLogTreesBody(t)
    \/ \E t \in Threads : CommitLogTreesBody(t)
    \/ \E t \in Threads : ApplyCommit(t)
    \/ \E t \in Threads : WaitForCommit(t)
    \/ \E t \in Threads : Respond(t)
    \/ ServerGetRoots
    \/ CommitWorker

SpecRoots == InitAlloc /\ [][NextRoots]_vars

\* The counters: clients allocate inode numbers, advance their transaction
\* sequence numbers and ask for the last stable one.  The server starts on
\* a file system that has handed out nearly all inode numbers and sequence
\* numbers; client 2 has a transaction open.
LateSuper ==
    [FreshSuper EXCEPT !.next_ino = U64_MAX - 1,
                       !.next_trans_seq = U64_MAX,
                       !.trans_seqs = {<<U64_MAX - 1, 2>>}]

InitCounters == Started(LateSuper) /\ Idle

NextCounters ==
    \/ \E t \in Threads : Request(t)
    \/ \E t \in Threads : AllocInodesBody(t)
    \/ \E t \in Threads : AdvanceSeqBody(t)
    \/ \E t \in Threads : ApplyCommit(t)
    \/ \E t \in Threads : WaitForCommit(t)
    \/ \E t \in Threads : Respond(t)
    \/ ServerGetLastSeq
    \/ CommitWorker

SpecCounters == InitCounters /\ [][NextCounters]_vars

\* The records of the clients: clients get and commit log trees, with any
\* rid and nr in the log_trees they send, and greet.  Only client 1 is
\* mounted at the start, as a quorum member.
LogsSuper == [UsedSuper EXCEPT !.mounted_clients = {Mounted(1, TRUE)}]

InitLogs == Started(LogsSuper) /\ Idle

\* COMMIT_LOG_TREES with any rid and nr in its payload
CommitLogTreesAny(t) == \E key \in Rids \X Nrs : CommitLogTrees(t, key)

\* GREETING with any rid in its payload
Greeting(t) == \E rid \in Rids : GreetingInsert(t, rid)
GreetingRefused(t) == nreq < MaxReqs /\ \E rid \in Rids : GreetingNoInsert(t, rid)

NextLogs ==
    \/ \E t \in Threads : Request(t)
    \/ \E t \in Threads : GetLogTreesBody(t)
    \/ \E t \in Threads : CommitLogTreesAny(t)
    \/ \E t \in Threads : Greeting(t)
    \/ \E t \in Threads : GreetingRefused(t)
    \/ \E t \in Threads : ApplyCommit(t)
    \/ \E t \in Threads : WaitForCommit(t)
    \/ \E t \in Threads : Respond(t)
    \/ CommitWorker

SpecLogs == InitLogs /\ [][NextLogs]_vars

\* The farewells: the mounts are mounted, the first of them with freed
\* blocks in its log_trees item; every mount says farewell once at most
\* while the server runs.
LifeSuper(slots) ==
    [UsedSuper EXCEPT
        !.mounted_clients = {Mounted(r, r \in QuorumMounts) : r \in Mounts},
        !.logs = [k \in Mounts \X Nrs |->
                    IF k = <<Reclaimer + 1, 1>>
                    THEN [Lt({}, {1, 2}) EXCEPT !.data_avail = {3},
                                                !.data_freed = {4},
                                                !.data_alloc_zone_blocks = 1,
                                                !.data_alloc_zones = {3}]
                    ELSE NoLt],
        !.quorum_slots = slots]

InitFarewell == \E slots \in QuorumSlots : Started(LifeSuper(slots)) /\ Idle

Farewell == ~shutting_down /\ \E rid \in Mounts \ FarewellRids : ServerFarewell(rid)

NextFarewell ==
    \/ Farewell
    \/ \E t \in Threads : ApplyCommit(t)
    \/ \E t \in Threads : WaitForCommit(t)
    \/ FwRun
    \/ FwCount
    \/ FwWalk
    \/ FwSelect
    \/ FwHold
    \/ FwReclaim
    \/ FwReclaimed
    \/ FwSend
    \/ FwSendDone
    \/ FwOut
    \/ CommitWorker

SpecFarewell == InitFarewell /\ [][NextFarewell]_vars

\* Recovery: the server starts with the first NumRecov mounts mounted; they
\* finish their recovery steps or not, the timer fires, and the mounts that
\* are fenced are reclaimed.
RecovMounted == {Mounted(r, r \in QuorumMounts) : r \in RecovMounts}

RecovSuper == [LifeSuper(NumQuorum) EXCEPT !.mounted_clients = RecovMounted]

InitRecov == Started(RecovSuper) /\ Idle

RecovStep == \E rid \in RecovMounts, which \in RecovAll : ServerRecovFinish(rid, which)

NextRecov ==
    \/ StartRecovery
    \/ RecovStep
    \/ RecoveryTimeout
    \/ FenceWorkRun
    \/ FenceWorkNext
    \/ \E rid \in RecovMounts : Fenced(rid)
    \/ RwRun
    \/ RwHold
    \/ RwReclaim
    \/ \E t \in Threads : ApplyCommit(t)
    \/ \E t \in Threads : WaitForCommit(t)
    \/ RwReclaimed
    \/ CommitWorker

SpecRecov == InitRecov /\ [][NextRecov]_vars

\* The block cache: callers read blocks, with and without a reference, and
\* allocate dirty blocks, the kernel drops buffers and blocks of the device
\* go bad.
NextBlockRead ==
    \/ DirtyAlloc
    \/ \E b \in Blknos : BlockRead(b)
    \/ \E b \in Blknos, s \in 1..MaxBlockSeq : BlockReadRef(b, s)
    \/ \E b \in Blknos : Evict(b)
    \/ \E b \in Blknos : Corrupt(b)

SpecBlockRead == Init /\ [][NextBlockRead]_vars

\* The transactions of the block layer: a caller reads blocks, makes the
\* block of its reference dirty and allocates dirty blocks; commits write
\* the dirty blocks, whose writes can fail.
NextBlock ==
    \/ \E b \in Blknos : BlockRead(b)
    \/ DirtyRef
    \/ DirtyAlloc
    \/ WriteDirtyStart
    \/ WriteDirtySubmit
    \/ \E b \in Blknos, uptodate \in BOOLEAN : BlockWriteEndIo(b, uptodate)
    \/ WriteDirtyDrain
    \/ WriteDirtyReturn
    \/ AdvanceSeq

SpecBlock == Init /\ [][NextBlock]_vars

\* the thread in scoutfs_block_write_dirty keeps running and the device ends
\* every write that was submitted to it
SpecBlockFair ==
    /\ SpecBlock
    /\ WF_vars(WriteDirtySubmit)
    /\ WF_vars(WriteDirtyDrain)
    /\ WF_vars(WriteDirtyReturn)
    /\ \A b \in Blknos : WF_vars(\E uptodate \in BOOLEAN : BlockWriteEndIo(b, uptodate))

\* The volume options: clients set, clear and read them while commits
\* succeed and fail.  The data device has MaxDataBlocks blocks or one less.
VoloptSuper(total) == [FreshSuper EXCEPT !.total_data_blocks = total]

InitVolopt ==
    \E total \in {MaxDataBlocks - 1, MaxDataBlocks} :
        Started(VoloptSuper(total)) /\ Idle

NextVolopt ==
    \/ \E t \in Threads : VoloptRefused(t)
    \/ \E t \in Threads : VoloptLock(t)
    \/ \E t \in Threads : VoloptHold(t)
    \/ \E t \in Threads : SetVoloptBody(t)
    \/ \E t \in Threads : ClearVoloptBody(t)
    \/ \E t \in Threads : ApplyCommit(t)
    \/ \E t \in Threads : WaitForCommit(t)
    \/ \E t \in Threads : VoloptPublish(t)
    \/ \E t \in Threads : ServerGetVolopt(t)
    \/ \E t \in Threads : Respond(t)
    \/ CommitWorker

SpecVolopt == InitVolopt /\ [][NextVolopt]_vars

\* ------------------------------------------- get_roots and set_roots
\* step by step, as the seqcount lets them interleave.  The roots that
\* the n-th set_roots call publishes are three references written n.

Pub(n) == [f \in Fields |-> n]

\* what these steps leave alone
not_seq_vars == <<thread_vars, commit_vars, forcing, super, disk, prev_roots, got,
                  pool_vars, client_vars, pending, run_vars, covered, failed,
                  life_vars, taken, last, more_vars>>

\* set_roots: write_seqcount_begin
SetRootsBegin ==
    /\ wr.pc = "idle"
    /\ wr.n < MaxPubs
    /\ roots_seqcount' = roots_seqcount + 1
    /\ wr' = [pc |-> "fs_root", n |-> wr.n + 1]
    /\ UNCHANGED <<roots, rd, not_seq_vars>>

\* set_roots: the next command after storing field f
AfterField(f) ==
    CASE f = "fs_root" -> "logs_root"
      [] f = "logs_root" -> "srch_root"
      [] f = "srch_root" -> "end"

\* set_roots: store one field of server->roots
SetRootsField ==
    /\ wr.pc \in Fields
    /\ roots' = [roots EXCEPT ![wr.pc] = wr.n]
    /\ wr' = [wr EXCEPT !.pc = AfterField(wr.pc)]
    /\ UNCHANGED <<roots_seqcount, rd, not_seq_vars>>

\* set_roots: write_seqcount_end
SetRootsEnd ==
    /\ wr.pc = "end"
    /\ roots_seqcount' = roots_seqcount + 1
    /\ wr' = [wr EXCEPT !.pc = "idle"]
    /\ UNCHANGED <<roots, rd, not_seq_vars>>

\* get_roots: read_seqcount_begin waits for an even count and returns it
GetRootsBegin(r) ==
    /\ rd[r].pc = "begin"
    /\ roots_seqcount % 2 = 0
    /\ rd' = [rd EXCEPT ![r].pc = "copy", ![r].seq = roots_seqcount,
                        ![r].todo = Fields]
    /\ UNCHANGED <<roots, roots_seqcount, wr, not_seq_vars>>

\* get_roots: *roots = server->roots copies the fields, in no given order
GetRootsCopy(r) ==
    /\ rd[r].pc = "copy"
    /\ \E f \in rd[r].todo :
         rd' = [rd EXCEPT ![r].copy[f] = roots[f],
                          ![r].todo = @ \ {f},
                          ![r].pc = IF rd[r].todo = {f} THEN "retry" ELSE "copy"]
    /\ UNCHANGED <<roots, roots_seqcount, wr, not_seq_vars>>

\* a get_roots that returns its copy without read_seqcount_retry
GetRootsNoRetry(r) ==
    /\ rd[r].pc = "retry"
    /\ rd' = [rd EXCEPT ![r].pc = "done"]
    /\ UNCHANGED <<roots, roots_seqcount, wr, not_seq_vars>>

\* get_roots: read_seqcount_retry sends the loop round again when the count
\* has changed since read_seqcount_begin
GetRootsRetry(r) ==
    /\ rd[r].pc = "retry"
    /\ rd' = IF roots_seqcount # rd[r].seq
             THEN [rd EXCEPT ![r].pc = "begin", ![r].retried = TRUE]
             ELSE [rd EXCEPT ![r].pc = "done"]
    /\ UNCHANGED <<roots, roots_seqcount, wr, not_seq_vars>>

\* get_roots returns; the thread may call it again
GetRootsReturn(r) ==
    /\ rd[r].pc = "done"
    /\ rd' = [rd EXCEPT ![r] = NoRead]
    /\ UNCHANGED <<roots, roots_seqcount, wr, not_seq_vars>>

InitSeq ==
    /\ super = FreshSuper
    /\ disk = FreshSuper
    /\ prev_roots = Pub(0)
    /\ roots = Pub(0)
    /\ other_ind = 1
    /\ alloc = [avail |-> {}, freed |-> {}]
    /\ avail_ind = 0
    /\ Idle

NextSeq ==
    \/ SetRootsBegin
    \/ SetRootsField
    \/ SetRootsEnd
    \/ \E r \in Readers : GetRootsBegin(r)
    \/ \E r \in Readers : GetRootsCopy(r)
    \/ \E r \in Readers : GetRootsRetry(r)
    \/ \E r \in Readers : GetRootsReturn(r)

SpecSeq == InitSeq /\ [][NextSeq]_vars

\* ------------------------------------------------------------- properties

\* the steps of a commit run that come before the super block write
BeforeWrite == {"forcing", "fill_list", "empty_list", "prepare_commit", "writer_write"}

\* the steps of a run during which the worker has the exclusive hold
Exclusive == {"forcing", "fill_list", "empty_list", "prepare_commit", "writer_write",
              "write_super", "set_roots", "swizzle", "out", "up_write"}

\* the durable super block holds what the request of r changed
Durable(r) ==
    CASE r.cmd = "alloc_inodes" -> disk.next_ino >= r.ino + r.nr
      [] r.cmd = "advance_seq" -> /\ <<r.seq, r.rid>> \in disk.trans_seqs
                                  /\ disk.next_trans_seq > r.seq
      [] r.cmd = "reclaim_rid" -> /\ RidSeqs(disk, r.rid) = {}
                                  /\ \A m \in disk.mounted_clients : m.rid # r.rid
                                  /\ \A k \in RidLogs(disk, r.rid) :
                                        /\ disk.logs[k].meta_avail = {}
                                        /\ disk.logs[k].meta_freed = {}
      [] OTHER -> TRUE

\* C1: when apply_commit called with err = 0 has returned 0 to a handler, a
\* super block write that began after the handler released its shared hold
\* has succeeded, and the durable super block holds the handler's changes.
SuccessMeansDurable ==
    \A t \in Threads :
        (pc[t] = "respond" /\ hret[t] = 0) => (t \in covered /\ Durable(req[t]))

\* a handler whose advance of the sequence number was answered with success
SuccessReturned ==
    \E t \in Handlers :
        pc[t] = "respond" /\ hret[t] = 0 /\ req[t].cmd = "advance_seq"

\* C2: the waiters a run takes off the list all get the result of that run;
\* every waiter linked before the run got the exclusive hold is among them;
\* the run writes the super block at most once, and once when it succeeds.
OneRunOneResult ==
    cpc = "up_write" =>
        /\ at_lock \subseteq batch
        /\ \A t \in batch :
              \/ pc[t] = "wait" /\ cw[t] = [done |-> TRUE, ret |-> ret]
              \/ pc[t] = "respond" /\ hret[t] = ret
              \/ pc[t] = "idle"
        /\ nwrites <= 1
        /\ (ret = 0 => nwrites = 1)

\* a run that completed two waiters at once, after one super block write
TwoWaitersOneRun ==
    /\ cpc = "up_write"
    /\ Cardinality(batch) >= 2
    /\ at_lock = batch
    /\ nwrites = 1
    /\ ret = 0

\* C3: the worker is in the steps between down_write and up_write exactly
\* while it is the writer of commit_rwsem, and then no thread has the shared
\* hold: no handler or reclaim is between hold_commit and apply_commit.
ExclusiveHold ==
    /\ commit_rwsem.writer <=> cpc \in Exclusive
    /\ commit_rwsem.writer =>
          /\ commit_rwsem.readers = {}
          /\ \A t \in Threads : pc[t] \notin {"held", "apply"}
    /\ \A t \in Threads : pc[t] \in {"held", "apply"} <=> t \in commit_rwsem.readers

\* the worker writes the super block while a request could still arrive
WriterHolds ==
    /\ commit_rwsem.writer
    /\ cpc = "write_super"
    /\ nreq < MaxReqs
    /\ \E t \in Threads : pc[t] = "idle" /\ t \notin gone

\* C4: in a commit run the super block is written only when the forced
\* unmount check, fill_list, empty_list, prepare_commit and the write of the
\* dirty blocks have all succeeded in that run; a run in which one of them
\* failed does not write the super block.
WriteAfterSteps ==
    /\ nwrites > 0 => BeforeWrite \subseteq steps
    /\ cpc = "write_super" => BeforeWrite \subseteq steps
    /\ (cpc \in {"out", "up_write"} /\ ~(BeforeWrite \subseteq steps)) =>
          (nwrites = 0 /\ ret # 0)

\* a run that has written the super block
SuperWritten ==
    /\ cpc = "set_roots"
    /\ nwrites = 1
    /\ "write_super" \in steps

\* C5: nothing that a request answered with an error has changed is in a
\* super block written afterwards: the durable next_ino has not passed the
\* inode numbers it took, the durable next_trans_seq has not passed the
\* sequence number it took.
FailedNotDurable ==
    \A c \in failed :
        /\ c[1] = "ino" => disk.next_ino <= c[2]
        /\ c[1] = "seq" => disk.next_trans_seq <= c[2]

\* the allocator pools: meta_avail, meta_freed, the active bank of the
\* server, its idle bank, and the lists of every stored log_trees item
\* the keys of the logs tree in order, to list the pools of the items
KeyAt(i) == <<((i - 1) \div MaxNr) + 1, ((i - 1) % MaxNr) + 1>>
Pools ==
    <<MetaAvail, MetaFreed, alloc.avail, alloc.freed, OtherAvail, OtherFreed>>
    \o [i \in 1..(NumHandlers * MaxNr) |-> super.logs[KeyAt(i)].meta_avail]
    \o [i \in 1..(NumHandlers * MaxNr) |-> super.logs[KeyAt(i)].meta_freed]

\* the pools blocks are handed out from, or into: meta_avail, the avail
\* lists of the two banks, the meta_avail of the log_trees items
AvailPools ==
    <<MetaAvail, alloc.avail, OtherAvail>>
    \o [i \in 1..(NumHandlers * MaxNr) |-> super.logs[KeyAt(i)].meta_avail]

\* C6: a block that was put on a freed list since the last super block
\* write that succeeded does not enter a pool that blocks are handed out
\* from.
FreedNotHandedOut ==
    [][\A i \in DOMAIN AvailPools :
          \A b \in pending' : b \in AvailPools[i]' => b \in AvailPools[i]]_vars

\* C7: every block is in at most one allocator pool.
OnePoolPerBlock ==
    \A b \in Blocks : Cardinality({i \in DOMAIN Pools : b \in Pools[i]}) <= 1

\* C8: what get_roots reads is the roots of the super block written last,
\* but for the moment between that write and set_roots, when it is the roots
\* of the super block written before; a GET_ROOTS response carries the
\* roots that were published when it was sent, never those of the in-memory
\* super block.
RootsAreWritten ==
    /\ cpc # "set_roots" => roots = RootsOf(disk)
    /\ cpc = "set_roots" => roots = prev_roots
    /\ got.arg_len = 0 => got.roots = got.stable

\* GET_ROOTS answered with written roots while the in-memory roots differ
RootsReadWhileDirty ==
    /\ got.arg_len = 0
    /\ got.roots = RootsOf(disk)
    /\ got.roots # RootsOf(FreshSuper)
    /\ got.roots # RootsOf(UsedSuper)
    /\ RootsOf(super) # RootsOf(disk)

\* C9: a get_roots call returns the three roots of one set_roots call, and
\* every step of set_roots can be taken whatever the readers are doing.
OnePublication ==
    /\ \A r \in Readers : rd[r].pc = "done" => \E n \in 0..MaxPubs : rd[r].copy = Pub(n)
    /\ wr.pc \in Fields => ENABLED SetRootsField
    /\ wr.pc = "end" => ENABLED SetRootsEnd
    /\ (wr.pc = "idle" /\ wr.n < MaxPubs) => ENABLED SetRootsBegin

\* a get_roots call that overlapped a set_roots call, went round again and
\* returned what that call published
ReadAfterRetry ==
    \E r \in Readers :
        /\ rd[r].pc = "done"
        /\ rd[r].retried
        /\ rd[r].copy = Pub(wr.n)
        /\ wr.n > 0

\* C10: a request whose payload has the wrong length is answered with
\* -EINVAL.
BadLengthRefused ==
    /\ \A t \in Threads : (pc[t] = "respond" /\ req[t].bad_len) => hret[t] = EINVAL
    /\ got.arg_len # 0 => got.error = EINVAL

\* C13: next_ino and next_trans_seq of the super block never decrease,
\* whatever requests arrive and however they interleave.
CountersNeverDecrease ==
    [][/\ super'.next_ino >= super.next_ino
       /\ super'.next_trans_seq >= super.next_trans_seq]_vars

\* the step of thread t from the commit hold to apply_commit in the handler
\* of cmd
BodyStep(t, cmd) == pc[t] = "held" /\ pc'[t] = "apply" /\ req'[t].cmd = cmd

\* the inode ranges [i1, i1 + n1) and [i2, i2 + n2) have a number in common
RangesMeet(i1, n1, i2, n2) ==
    \E x \in 0..U64_MAX : i1 <= x /\ x < i1 + n1 /\ i2 <= x /\ x < i2 + n2

\* C14: ALLOC_INODES(count) at next_ino = i takes ino = i and
\* nr = min(count, U64_MAX - i) and moves next_ino on by nr, never past
\* U64_MAX; the range it takes has no number in common with a range taken
\* by another request.
InodesClamped ==
    [][\A t \in Handlers : BodyStep(t, "alloc_inodes") =>
          LET r == req'[t]
              i == super.next_ino
          IN /\ r.ino = i
             /\ r.nr = Min(r.count, U64_MAX - i)
             /\ super'.next_ino = i + r.nr
             /\ super'.next_ino <= U64_MAX
             /\ \A o \in taken.inos : ~RangesMeet(o[1], o[2], r.ino, r.nr)]_vars
InodesSaturated ==
    \E t \in Handlers :
        /\ pc[t] = "respond" /\ hret[t] = 0
        /\ req[t].cmd = "alloc_inodes" /\ req[t].nr < req[t].count
        /\ super.next_ino = U64_MAX
        /\ Cardinality(taken.inos) = 2

\* C15: a successful ADVANCE_SEQ of rid leaves exactly one trans_seq item of
\* the rid; its seq is the one returned, which is next_trans_seq as it was
\* and is greater than every seq taken before; next_trans_seq has grown by
\* one and the items of the other rids are as they were.
AdvanceSeqIssues ==
    [][\A t \in Handlers : BodyStep(t, "advance_seq") /\ err'[t] = 0 =>
          LET seq == req'[t].seq
          IN /\ RidSeqs(super', t) = {<<seq, t>>}
             /\ seq = super.next_trans_seq
             /\ \A e \in taken.seqs \cup LiveSeqs(super) : e < seq
             /\ super'.next_trans_seq = super.next_trans_seq + 1
             /\ \A r \in Rids \ {t} : RidSeqs(super', r) = RidSeqs(super, r)]_vars

\* C16: GET_LAST_SEQ returns the smallest seq of the trans_seq items less
\* one, or next_trans_seq less one when there is no item (as 64 bit values):
\* a value smaller than the seq of every item there is at the call.
LastSeqBelowLive ==
    last.error = 0 =>
        /\ last.seq = ((IF last.live # {}
                        THEN CHOOSE m \in last.live : \A x \in last.live : m <= x
                        ELSE last.next) - 1) % (U64_MAX + 1)
        /\ \A e \in last.live : last.seq < e

\* the mounted client items of a rid
RidMounted(s, rid) == {m \in s.mounted_clients : m.rid = rid}

\* C12: a rid has at most one log_trees item, whatever its nr, and at most
\* one mounted client item, in the super block in memory and in the one
\* written, while GET_LOG_TREES, COMMIT_LOG_TREES and greetings of the same
\* rid run together.
OneRecordPerRid ==
    \A rid \in Rids : \A s \in {super, disk} :
        /\ Cardinality(RidLogs(s, rid)) <= 1
        /\ Cardinality(RidMounted(s, rid)) <= 1
RecordsOfOneRid ==
    \E t, u \in Handlers :
        /\ t # u
        /\ pc[t] = "respond" /\ hret[t] = 0 /\ req[t].cmd = "get_log_trees"
        /\ pc[u] = "respond" /\ hret[u] = 0 /\ req[u].cmd = "greeting"
        /\ req[u].rid = t
        /\ Cardinality(RidLogs(disk, t)) = 1
        /\ Cardinality(RidMounted(disk, t)) = 1
        /\ RidMounted(LogsSuper, t) = {}

\* C17: COMMIT_LOG_TREES on the connection of a rid overwrites no log_trees
\* item but the rid's own and creates none; when there is no item at the
\* rid and nr it names it fails and changes no item.
CommitOnlyOwnRecord ==
    [][\A t \in Handlers : BodyStep(t, "commit_log_trees") =>
          /\ \A k \in DOMAIN super.logs :
                k[1] # t => super'.logs[k] = super.logs[k]
          /\ ~super.logs[req'[t].key].present =>
                err'[t] # 0 /\ super'.logs = super.logs]_vars

\* C18: a greeting changes the mounted client items only by inserting the
\* item of its rid.  With matching fsid and version and server_term 0 the
\* item of the rid is there after the insert: stored if there was none,
\* left as it was and no -EEXIST if there was one.  With server_term != 0
\* the items are unchanged.  With another fsid or version the greeting is
\* answered with an error, the items are unchanged and the GREETING step of
\* the rid's recovery is not marked as finished.
GreetingChanges ==
    [][\A t \in Handlers :
          /\ BodyStep(t, "greeting") =>
                LET rid == req'[t].rid
                    was == RidMounted(super, rid)
                IN /\ err'[t] # EEXIST
                   /\ err'[t] = 0 =>
                         /\ Cardinality(RidMounted(super', rid)) = 1
                         /\ was # {} => UNCHANGED super
                         /\ super'.mounted_clients \ RidMounted(super', rid)
                               = super.mounted_clients \ was
                   /\ err'[t] # 0 => UNCHANGED super
          /\ (pc[t] = "idle" /\ pc'[t] = "respond" /\ req'[t].cmd = "greeting") =>
                /\ UNCHANGED super
                /\ req'[t].term # 0 \/ hret'[t] # 0
                /\ ~req'[t].match => hret'[t] # 0
          /\ (pc[t] = "respond" /\ pc'[t] = "idle" /\ req[t].cmd = "greeting") =>
                /\ UNCHANGED super
                /\ ~req[t].match => hret[t] # 0 /\ recov' = recov
                /\ hret[t] = 0 => req[t].rid \in recov']_vars
GreetingRepeated ==
    \E t \in Handlers :
        /\ pc[t] = "respond" /\ hret[t] = 0 /\ req[t].cmd = "greeting"
        /\ req[t].term = 0
        /\ RidMounted(LogsSuper, req[t].rid) # {}
        /\ super.mounted_clients = LogsSuper.mounted_clients
        /\ 2 \in recov

\* the rids of the entries of a list of farewell requests or of responses
RidsOf(l) == {l[i].rid : i \in 1..Len(l)}

\* how many entries of the list are of the request a
CountOf(l, a) == Cardinality({i \in 1..Len(l) : l[i].rid = a.rid /\ l[i].id = a.id})

\* the requests on farewell_requests and on the lists of the running worker
Queued == farewell_requests \o fwk.reqs \o fwk.send

SelectionRule ==
    [][/\ (fwk.pc = "walk" /\ fwk'.pc = "select") =>
            \A i \in 1..Len(fwk.reqs) :
                LET fw == fwk.reqs[i]
                    item == RidMounted(super, fw.rid)
                IN IF item = {} \/ \E m \in item : ~m.quorum
                   THEN fw.rid \in RidsOf(fwk'.send)
                   ELSE fw.rid \in RidsOf(fwk'.reqs)
       /\ (fwk.pc = "select" /\ fwk'.pc # "select") =>
            \A i \in 1..Len(fwk.reqs) :
                LET before == {fwk.reqs[j].rid : j \in 1..(i - 1)} \cap RidsOf(fwk'.send)
                    left == RidsOf(fwk.send) \cup before
                    mounted == {m \in fwk.counted : m.rid \notin left}
                    queued == RidsOf(fwk.reqs) \ left
                IN IF fwk.reqs[i].rid \in RidsOf(fwk'.send)
                   THEN \/ Cardinality({m \in mounted : m.quorum}) > VotesNeeded(super)
                        \/ \A m \in mounted : m.quorum /\ m.rid \in queued
                   ELSE fwk.reqs[i].rid \in RidsOf(fwk'.reqs)
       /\ (fwk.pc = "out" /\ fwk'.pc = "idle") =>
            RidsOf(fwk.reqs) \cup RidsOf(fwk.send) \subseteq RidsOf(farewell_requests')
      ]_vars
SelectedOneHeldOne ==
    /\ fwk.pc = "reclaim"
    /\ fwk.idx = 1
    /\ RidsOf(fwk.send) \cap QuorumMounts # {}
    /\ RidsOf(fwk.send) \ {m.rid : m \in fwk.counted} # {}
    /\ fwk.reqs # <<>>

\* the quorum members that said farewell; every other mount has its answer
QuorumAsked == FarewellRids \cap QuorumMounts
OthersAnswered == Mounts \ QuorumMounts \subseteq RidsOf(sent)

\* the log_trees items of the rid hold no allocator blocks
LogsReclaimed(s, rid) ==
    \A k \in RidLogs(s, rid) :
        s.logs[k].meta_avail = {} /\ s.logs[k].meta_freed = {}

\* while all but one of the quorum members have said farewell none of them
\* has an answer
HeldWhileTwo ==
    OthersAnswered /\ Cardinality(QuorumAsked) = NumQuorum - 1 =>
        RidsOf(sent) \cap QuorumMounts = {}

\* a run that had the farewells of all the quorum members, and in which no
\* step failed, has answered them all
AllAnswered ==
    /\ OthersAnswered /\ QuorumAsked = QuorumMounts
    /\ RidsOf(farewell_requests) = {}
    /\ fwk.pc = "out" /\ fwk.ret = 0 /\ fwk.send = <<>>
    => QuorumMounts \subseteq RidsOf(sent)

\* when a response goes out the mounted client item of its rid is gone and
\* its log_trees allocators are reclaimed, in memory and in the super block
\* written
ReclaimedFirst ==
    Len(sent') > Len(sent) =>
        LET rid == sent'[Len(sent')].rid
        IN \A s \in {super, disk} : RidMounted(s, rid) = {} /\ LogsReclaimed(s, rid)

ReclaimFailed == fwk.pc = "out" /\ fwk.ret < 0 /\ fwk.idx >= 1

\* C21: a response to a FAREWELL goes out only for a rid whose reclaim_rid,
\* its commit included, returned success in the same run of the worker; a
\* run in which a reclaim_rid failed sends no response, puts its requests
\* back on farewell_requests and stops the server.
AnswerAfterReclaim ==
    [][/\ Len(sent') > Len(sent) =>
            /\ sent'[Len(sent')].rid \in fwk.reclaimed
            /\ RidMounted(disk, sent'[Len(sent')].rid) = {}
       /\ ReclaimFailed =>
            /\ fwk.nsent = 0
            /\ sent' = sent
            /\ fwk' # fwk =>
                 /\ fwk' = NoWork
                 /\ shutting_down'
                 /\ RidsOf(fwk.send) \cup RidsOf(fwk.reqs)
                        \subseteq RidsOf(farewell_requests')]_vars

\* a run that reclaimed one rid, failed to reclaim the next one and is at
\* out, after an earlier run answered a request
FailedAfterReclaim ==
    /\ ReclaimFailed
    /\ fwk.reclaimed # {}
    /\ Len(sent) >= 1

\* a rid that was reclaimed: no mounted client item, no trans_seq item, and
\* the allocators of its log_trees item emptied
AlreadyReclaimed(s, rid) ==
    /\ RidMounted(s, rid) = {}
    /\ RidSeqs(s, rid) = {}
    /\ \A k \in RidLogs(s, rid) :
          /\ s.logs[k].meta_avail = {} /\ s.logs[k].meta_freed = {}
          /\ s.logs[k].data_avail = {} /\ s.logs[k].data_freed = {}

\* reclaim_rid has run its steps for the rid in this step
ReclaimStep(rid) ==
    /\ pc[Reclaimer] = "held"
    /\ pc'[Reclaimer] = "apply"
    /\ req'[Reclaimer].cmd = "reclaim_rid"
    /\ req'[Reclaimer].rid = rid

\* C22: reclaim_rid of a rid that was already reclaimed leaves the super
\* block as it is and, when no call fails with an error of the device,
\* returns success to the commit, so that a FAREWELL sent again is answered.
ReclaimIdempotent ==
    [][\A rid \in Mounts :
          ReclaimStep(rid) /\ AlreadyReclaimed(super, rid) =>
              /\ super' = super
              /\ pending' = pending
              /\ ~req'[Reclaimer].fault => err'[Reclaimer] = 0]_vars

\* reclaim_rid has run with success for a rid that the super block written
\* shows reclaimed by an earlier run
ReclaimedAgain ==
    /\ pc[Reclaimer] = "apply"
    /\ req[Reclaimer].cmd = "reclaim_rid"
    /\ err[Reclaimer] = 0
    /\ AlreadyReclaimed(disk, req[Reclaimer].rid)
    /\ \E k \in RidLogs(disk, req[Reclaimer].rid) : TRUE

\* the zone bits and the zone size of the log_trees items of a rid are zero
ZonesZero(s, rid) ==
    \A k \in RidLogs(s, rid) :
        s.logs[k].data_alloc_zone_blocks = 0 /\ s.logs[k].data_alloc_zones = {}

\* the blocks of the four allocators of the log_trees items of a rid
MetaOf(s, rid) ==
    UNION {s.logs[k].meta_avail \cup s.logs[k].meta_freed : k \in RidLogs(s, rid)}
DataOf(s, rid) ==
    UNION {s.logs[k].data_avail \cup s.logs[k].data_freed : k \in RidLogs(s, rid)}

\* C29: when reclaim_rid has returned success the rid has no trans_seq item
\* and no mounted client item, in memory and in the super block written;
\* its log_trees item is still there, its four allocators emptied into
\* other_freed and the data_alloc of the super block, its zone bits and
\* zone size zero.  The steps run under one shared commit hold, and the
\* mounted client item is deleted only by a call whose earlier steps all
\* succeeded.
ReclaimComplete ==
    /\ [](\A rid \in Mounts :
            /\ pc[Reclaimer] = "respond"
            /\ hret[Reclaimer] = 0
            /\ req[Reclaimer].cmd = "reclaim_rid"
            /\ req[Reclaimer].rid = rid
            => \A s \in {super, disk} : AlreadyReclaimed(s, rid) /\ ZonesZero(s, rid))
    /\ [][\A rid \in Mounts :
            ReclaimStep(rid) =>
              /\ Reclaimer \in commit_rwsem.readers
              /\ ~commit_rwsem.writer
              /\ RidLogs(super', rid) = RidLogs(super, rid)
              /\ err'[Reclaimer] = 0 =>
                    /\ MetaOf(super, rid) \subseteq super'.server_meta_freed[other_ind]
                    /\ DataOf(super, rid) \subseteq super'.data_alloc
              /\ RidMounted(super', rid) # RidMounted(super, rid) =>
                    /\ err'[Reclaimer] = 0
                    /\ AlreadyReclaimed(super', rid)
                    /\ ZonesZero(super', rid)]_vars

\* reclaim_rid has returned success for the mount whose log_trees item held
\* blocks in its allocators and zone bits, and the blocks are in the pools
\* of the super block written
ItemEmptied ==
    /\ pc[Reclaimer] = "respond"
    /\ hret[Reclaimer] = 0
    /\ req[Reclaimer].cmd = "reclaim_rid"
    /\ req[Reclaimer].rid = Reclaimer + 1
    /\ RidLogs(disk, Reclaimer + 1) # {}
    /\ {3, 4} \subseteq disk.data_alloc
    /\ ~AlreadyReclaimed(LifeSuper(NumQuorum), Reclaimer + 1)

\* the thread is in the critical section of SET_VOLOPT or CLEAR_VOLOPT and
\* apply_commit has returned to it
VoloptReturned(t) == volopt_mutex = t /\ pc[t] = "respond"

\* C24: server->volopt, which GET_VOLOPT and get_volopt_val read, changes
\* only in a handler to which apply_commit returned 0, to the options of
\* the super block written; a SET_VOLOPT or CLEAR_VOLOPT that ends with an
\* error leaves the volopt of the super block and server->volopt as they
\* were before the request; while no thread holds volopt_mutex the two are
\* equal.
VoloptAfterCommit ==
    /\ [](volopt_mutex = 0 => super.volopt = volopt)
    /\ [][/\ volopt' # volopt =>
              /\ \E t \in Handlers : VoloptReturned(t) /\ hret[t] = 0
              /\ disk.volopt = volopt'
          /\ \A t \in Handlers :
                VoloptReturned(t) /\ volopt_mutex' = 0 /\ hret[t] # 0 =>
                    /\ super'.volopt = volopt_pre.super
                    /\ volopt' = volopt_pre.server]_vars

\* a SET_VOLOPT stored its value in the super block, its commit failed, and
\* the handler has put the volopt of the super block back
VoloptPutBack ==
    \E t \in Handlers :
        /\ pc[t] = "respond"
        /\ volopt_mutex = 0
        /\ req[t].cmd = "set_volopt"
        /\ "data_alloc_zone_blocks" \in req[t].volopt.set_bits
        /\ err[t] = 0
        /\ hret[t] # 0
        /\ super.volopt.data_alloc_zone_blocks # req[t].volopt.data_alloc_zone_blocks
        /\ "data_alloc_zone_blocks" \in volopt.set_bits

\* the zones of the blocks of the data device at a zone size: block b is in
\* zone b / zone_blocks (mod_extent_bits)
ZonesOf(zone_blocks, total) == {b \div zone_blocks : b \in 0..(total - 1)}

\* C25: SET_VOLOPT with the bit of data_alloc_zone_blocks and the value v
\* is accepted exactly when v is at least the data fill target, at most
\* total_data_blocks, and every block of the data device is in a zone below
\* SCOUTFS_DATA_ALLOC_MAX_ZONES; otherwise it is answered with -EINVAL.
ZoneBlocksChecked ==
    \A t \in Handlers :
        /\ pc[t] = "apply"
        /\ req[t].cmd = "set_volopt"
        /\ "data_alloc_zone_blocks" \in req[t].volopt.set_bits
        => LET v == req[t].volopt.data_alloc_zone_blocks
               total == super.total_data_blocks
               good == /\ v >= DataFillTarget
                       /\ v <= total
                       /\ \A z \in ZonesOf(v, total) : z < DataAllocMaxZones
           IN /\ good => err[t] = 0
              /\ ~good => err[t] = EINVAL

\* the rids a fence was started for
StartedRids == {rcv.started[i] : i \in DOMAIN rcv.started}

\* C23 as stated: once the fence work the timeout queued has run, with the
\* server still running, a fence was started for every rid that had a step
\* pending when the timer fired
FenceEveryPending ==
    (rcv.work = "done" /\ ~shutting_down) => StartedRids = rcv.at_timeout

\* C23: the fence work walks the rids in order and starts a fence for every
\* rid that has a recovery step pending when the walk reaches it, each
\* once, until a fence fails to start, which aborts the server and ends the
\* walk; a fence that was started stays whatever the rid finishes later,
\* and no rid that had finished every step before the timer fired is
\* fenced
FencePendingSeen ==
    /\ [](/\ \A i, j \in DOMAIN rcv.started :
               i < j => rcv.started[i] < rcv.started[j]
          /\ StartedRids \subseteq rcv.at_timeout
          /\ \A r \in RecovMounts : fence[r] # "none" <=> r \in StartedRids
          /\ (rcv.work = "done" /\ ~shutting_down) =>
                \A r \in RecovMounts : recov_pending[r] # {} => r \in StartedRids)
    /\ [][(rcv.work = "run" /\ rcv' # rcv) =>
             LET r == RecovNextPending(recov_pending, rcv.rid)
             IN IF r = 0
                THEN rcv'.work = "done" /\ fence' = fence
                ELSE \/ /\ fence' = [fence EXCEPT ![r] = "started"]
                        /\ rcv'.started = Append(rcv.started, r)
                        /\ rcv'.work = "run"
                     \/ /\ shutting_down'
                        /\ rcv'.work = "done"
                        /\ fence' = fence /\ rcv'.started = rcv.started]_vars

\* the walk is over, the server runs on, and a rid that was pending when
\* the timer fired finished before the walk reached it and is not fenced
\* while another one is
FinishedUnderway ==
    /\ rcv.work = "done"
    /\ ~shutting_down
    /\ \E r, q \in rcv.at_timeout :
         /\ fence[r] = "none" /\ recov_pending[r] = {}
         /\ fence[q] # "none"

\* C30: a fence that fails to start, a fence request with its error
\* indicator set and a reclaim_rid that fails each abort the server, and
\* then no fence request is freed and no rid finishes recovery; after a
\* reclaim_rid that succeeds the request is freed and the rid has finished
\* every step; a request is freed in no other way
FenceFailureAborts ==
    [][/\ (/\ rcv.work = "run" /\ rcv'.work = "done"
           /\ RecovNextPending(recov_pending, rcv.rid) # 0) =>
             (shutting_down' /\ fence' = fence /\ recov_pending' = recov_pending)
       /\ (rwk.pc = "idle" /\ rwk'.pc = "idle" /\ rwk'.rid # rwk.rid) =>
             (/\ fence[rwk'.rid] = "error"
              /\ shutting_down' /\ fence' = fence
              /\ recov_pending' = recov_pending)
       /\ (rwk.pc = "idle" /\ rwk'.pc = "reclaim") => fence[rwk'.rid] = "fenced"
       /\ (rwk.pc = "reclaim" /\ rwk'.pc = "idle") =>
             IF hret[Reclaimer] < 0
             THEN shutting_down' /\ fence' = fence /\ recov_pending' = recov_pending
             ELSE /\ fence' = [fence EXCEPT ![rwk.rid] = "freed"]
                  /\ recov_pending' = [recov_pending EXCEPT ![rwk.rid] = {}]
       /\ \A r \in RecovMounts :
            (fence'[r] = "freed" /\ fence[r] # "freed") =>
               (rwk.pc = "reclaim" /\ rwk.rid = r /\ hret[Reclaimer] = 0)]_vars

\* one rid was reclaimed and its request freed, then the reclaim of the
\* other failed: the server is aborted, that request is still there and
\* the rid still has its steps pending
ReclaimFailedFenceKept ==
    /\ shutting_down
    /\ rwk.pc = "idle"
    /\ \E r, q \in RecovMounts :
         /\ fence[r] = "freed" /\ recov_pending[r] = {}
         /\ fence[q] = "fenced" /\ recov_pending[q] # {} /\ rwk.rid = q


\* C26: when scoutfs_block_write_dirty has returned, the blocks whose write
\* failed are in the dirty tree, the blocks whose write succeeded are not,
\* and with a write that failed it returned an error
WriteFailureReturned ==
    (wd.pc = "returned") =>
        /\ bres.failed \subseteq DirtyTree(bufs)
        /\ \A b \in DirtyTree(bufs) : b \in bres.failed \/ bdev[b] # bufs[b].c
        /\ bres.failed # {} => bres.ret < 0

\* C27: a scoutfs_block_dirty_ref that returns a block: with the dirty seq
\* in the reference it is the block of the reference and the allocator, the
\* dirty tree and the reference are as they were; otherwise the block is
\* one the allocator gave, it is in the dirty tree with the contents of the
\* old block and its own blkno and the dirty seq in the header, the old
\* blkno is freed with the seq of the old header, and the reference is the
\* new blkno and the dirty seq
DirtyRefCows ==
    [][(/\ bres'.op = "dirty_ref" /\ bres'.ret = 0
        /\ <<bufs, buddy, bref, bres>>' # <<bufs, buddy, bref, bres>>) =>
          IF bref.seq = sbi.seq
          THEN /\ bres'.blkno = bref.blkno
               /\ bufs'[bref.blkno].uptodate
               /\ buddy' = buddy
               /\ bref' = bref
               /\ DirtyTree(bufs') = DirtyTree(bufs)
          ELSE LET blkno == bres'.blkno
                   old == bufs'[bref.blkno].c
               IN /\ blkno \in buddy.free /\ blkno \notin buddy'.free
                  /\ DirtyTree(bufs') = DirtyTree(bufs) \cup {blkno}
                  /\ bufs'[blkno].c.data = old.data
                  /\ bufs'[blkno].c.blkno = blkno
                  /\ bufs'[blkno].c.seq = sbi.seq
                  /\ old.blkno = bref.blkno
                  /\ buddy'.freed = buddy.freed \cup {<<bref.blkno, old.seq>>}
                  /\ buddy'.free = buddy.free \ {blkno}
                  /\ bref' = [blkno |-> blkno, seq |-> sbi.seq]]_vars

\* the reference was made dirty in the second transaction: the block
\* written by the first one is freed with its seq, and the call is repeated
\* with the reference it left
CowedAgain ==
    /\ bres.op = "dirty_ref" /\ bres.ret = 0
    /\ sbi.seq = 3
    /\ bref.seq = sbi.seq /\ bres.blkno = bref.blkno
    /\ \E b \in Blknos : <<b, 2>> \in buddy.freed /\ bdev[b].seq = 2
    /\ <<1, 1>> \in buddy.freed

\* C28: after a scoutfs_block_read whose header verification failed the
\* call returned an error, the buffer is not marked verified, and it is not
\* uptodate, so that the next read reads the device
ReadFailureInvalidates ==
    (bres.op = "read" /\ bres.badhdr) =>
        /\ bres.ret < 0
        /\ ~bufs[bres.blkno].verified
        /\ ~bufs[bres.blkno].uptodate


\* C40: a block that scoutfs_block_read or scoutfs_block_read_ref returned
\* is in the dirty tree or has a header that passes verify_block_header
ReadReturnsVerified ==
    (bres.op \in {"read", "read_ref"} /\ bres.ret = 0) =>
        \/ bufs[bres.blkno].dirty
        \/ VerifyBlockHeader(bufs[bres.blkno].c, bres.blkno) = 0


\* C32: a scoutfs_block_write_dirty that started returns, and when it
\* returns no write it submitted is in flight and block_writes is 0
WriteDirtyReturns ==
    /\ [](wd.pc = "returned" => (wd.inflight = {} /\ sbi.block_writes = 0))
    /\ [](wd.pc = "wait" /\ wd.inflight = {} => sbi.block_writes = 0)
    /\ (wd.pc = "loop") ~> (wd.pc = "returned")

\* the call returned after one write failed when it ended and the next
\* failed when it was submitted
ReturnedAfterFailures ==
    /\ wd.pc = "returned"
    /\ bres.ret = EIO
    /\ Cardinality(bres.failed) = 2


\* C38: of two GET_LAST_SEQ calls that succeed one after the other, the
\* second returns no less than the first
LastSeqNeverDecreases ==
    [][(last.error = 0 /\ last'.error = 0) => last'.seq >= last.seq]_vars

NextShutdown ==
    \/ received = {} /\ Farewell
    \/ nreq = 0 /\ Request(1)
    \/ Greeting(1)
    \/ \E t \in Threads : ApplyCommit(t)
    \/ \E t \in Threads : WaitForCommit(t)
    \/ Respond(1)
    \/ FwRun
    \/ FwCount
    \/ FwWalk
    \/ FwSelect
    \/ FwHold
    \/ FwReclaim
    \/ FwReclaimed
    \/ FwSend
    \/ FwSendDone
    \/ FwOut
    \/ CommitWorker

SpecShutdown == InitFarewell /\ [][NextShutdown]_vars

\* C31: while shutting_down is set no step queues the farewell work, the
\* reclaim work or the fence_pending_recov work: a work that is queued after
\* the step was queued before it.
NoWorkQueuedShuttingDown ==
    [][shutting_down =>
         /\ farewell_queued' => farewell_queued
         /\ rwk'.queued => rwk.queued
         /\ rcv'.work = "queued" => rcv.work = "queued"
      ]_vars

\* ---------------------------------------------------------------------------
\* The locks of the handlers.  A handler is followed through the calls it
\* makes that take and release a lock; what it does to the items in between
\* is left to the specifications above.

Lock(m) == <<"mutex_lock", m>>
Unlock(m) == <<"mutex_unlock", m>>
InMutex(m) == <<Lock(m), Unlock(m)>>
SeqWrite == <<<<"down_write", "seq_rwsem">>, <<"up_write", "seq_rwsem">>>>
SeqRead == <<<<"down_read", "seq_rwsem">>, <<"up_read", "seq_rwsem">>>>

\* reclaim_log_trees with an item of the rid: alloc_mutex inside logs_mutex
ReclaimLogTreesLocks ==
    <<Lock("logs_mutex")>> \o InMutex("alloc_mutex") \o <<Unlock("logs_mutex")>>

\* cancel_srch_compact with one compaction of the rid: srch_mutex, then
\* alloc_mutex, then srch_mutex for the call that finds no more
CancelSrchCompactLocks ==
    InMutex("srch_mutex") \o InMutex("alloc_mutex") \o InMutex("srch_mutex")

\* reclaim_rid with alloc_mutex taken around logs_mutex
ReclaimRidLocksInverted ==
    SeqWrite \o <<Lock("alloc_mutex")>> \o InMutex("logs_mutex") \o
    <<Unlock("alloc_mutex")>>

\* reclaim_rid between hold_commit and apply_commit: remove_trans_seq,
\* reclaim_log_trees, cancel_srch_compact and delete_mounted_client
ReclaimRidLocks ==
    SeqWrite \o ReclaimLogTreesLocks \o CancelSrchCompactLocks \o
    InMutex("mounted_clients_mutex")

\* the lock and unlock calls of a handler between hold_commit and
\* apply_commit when nothing makes it leave early
HeldPath(cmd) ==
    CASE cmd = "alloc_inodes" -> <<>>
      [] cmd = "get_log_trees" ->
            <<Lock("logs_mutex")>> \o InMutex("alloc_mutex") \o <<Unlock("logs_mutex")>>
      [] cmd = "commit_log_trees" ->
            <<Lock("logs_mutex")>> \o InMutex("srch_mutex") \o <<Unlock("logs_mutex")>>
      [] cmd = "advance_seq" -> SeqWrite
      [] cmd = "srch_get_compact" ->
            InMutex("srch_mutex") \o InMutex("alloc_mutex") \o InMutex("srch_mutex")
      [] cmd = "srch_commit_compact" ->
            InMutex("srch_mutex") \o InMutex("alloc_mutex")
      [] cmd = "greeting" -> InMutex("mounted_clients_mutex")
      [] cmd = "reclaim_rid" -> ReclaimRidLocks

\* the ways a handler leaves its path early, as <<the calls it had yet to
\* make, the calls it makes instead>>: the gotos to unlock and to apply, the
\* calls of reclaim_rid that are skipped after one that failed, a rid with
\* no log_trees item and a rid with no compaction
HeldExits(cmd) ==
    CASE cmd \in {"get_log_trees", "commit_log_trees"} ->
            {<<Tail(HeldPath(cmd)), <<Unlock("logs_mutex")>>>>}
      [] cmd = "srch_get_compact" ->
            {<<InMutex("alloc_mutex") \o InMutex("srch_mutex"), <<>>>>,
             <<InMutex("srch_mutex"), <<>>>>}
      [] cmd = "srch_commit_compact" -> {<<InMutex("alloc_mutex"), <<>>>>}
      [] cmd = "reclaim_rid" ->
            LET mc == InMutex("mounted_clients_mutex")
                cs == CancelSrchCompactLocks \o mc
            IN {<<ReclaimLogTreesLocks \o cs, <<>>>>,
                <<Tail(ReclaimLogTreesLocks) \o cs, <<Unlock("logs_mutex")>> \o cs>>,
                <<cs, <<>>>>,
                <<InMutex("alloc_mutex") \o InMutex("srch_mutex") \o mc, mc>>,
                <<InMutex("alloc_mutex") \o InMutex("srch_mutex") \o mc, <<>>>>,
                <<InMutex("srch_mutex") \o mc, <<>>>>,
                <<mc, <<>>>>}
      [] OTHER -> {}

\* a farewell_worker that reads the log_trees items under logs_mutex
UnheldPathsLogs(cmd) ==
    CASE cmd = "get_last_seq" -> {SeqRead}
      [] cmd = "farewell_worker" -> {InMutex("logs_mutex")}

\* the lock and unlock calls of what runs without the commit hold:
\* server_get_last_seq, and farewell_worker where it reads the mounted
\* client items
UnheldPaths(cmd) ==
    CASE cmd = "get_last_seq" -> {SeqRead}
      [] cmd = "farewell_worker" -> {InMutex("mounted_clients_mutex")}

\* the requests the threads are given: the first handler those of the
\* volume options and GET_LAST_SEQ, the other handlers those that take
\* locks inside the commit hold, the workers reclaim_rid and the reads of
\* farewell_worker
VoloptHandler == 1

HeldCmds(t) ==
    IF t = Reclaimer THEN {"reclaim_rid"}
    ELSE IF t = VoloptHandler THEN {}
    ELSE {"alloc_inodes", "get_log_trees", "commit_log_trees", "advance_seq",
          "srch_get_compact", "srch_commit_compact", "greeting"}

UnheldCmds(t) ==
    IF t = Reclaimer THEN {"farewell_worker"}
    ELSE IF t = VoloptHandler THEN {"get_last_seq"}
    ELSE {}

LockCmds == UNION {HeldCmds(t) \cup UnheldCmds(t) : t \in Threads}

beside_locks == <<zn, volopt_vars, recov_vars, block_vars, life_vars, taken, last,
                  seq_vars, forcing, super, disk, root_vars, pool_vars,
                  client_vars, pending, run_vars, covered, failed>>

\* a handler takes the commit hold
LockHold(t) == HeldCmds(t) # {} /\ nreq < MaxLockReqs /\ HoldCommit(t)

\* the handler that has the hold starts on its path
LockHeld(t) ==
    /\ pc[t] = "held"
    /\ req[t].cmd = "none"
    /\ \E cmd \in HeldCmds(t) :
         /\ req' = [req EXCEPT ![t] = [NoReq EXCEPT !.cmd = cmd]]
         /\ lk' = [lk EXCEPT ![t] = HeldPath(cmd)]
    /\ UNCHANGED <<mutex, seq_rwsem, pc, err, hret, nreq, cw, commit_vars, beside_locks>>

\* server_get_last_seq, and farewell_worker counting the mounted clients
LockUnheld(t) ==
    /\ pc[t] = "idle"
    /\ nreq < MaxLockReqs
    /\ nreq' = nreq + 1
    /\ \E cmd \in UnheldCmds(t) : \E p \in UnheldPaths(cmd) :
         /\ req' = [req EXCEPT ![t] = [NoReq EXCEPT !.cmd = cmd]]
         /\ lk' = [lk EXCEPT ![t] = p]
    /\ pc' = [pc EXCEPT ![t] = "unheld"]
    /\ UNCHANGED <<mutex, seq_rwsem, err, hret, cw, commit_vars, beside_locks>>

\* the next call of the handler: mutex_lock and down_write wait until the
\* lock is free, down_read until it has no writer
LockStep(t) ==
    /\ pc[t] \in {"held", "unheld"}
    /\ lk[t] # <<>>
    /\ LET op == Head(lk[t])[1]
           m == Head(lk[t])[2]
       IN CASE op = "mutex_lock" ->
                 /\ mutex[m] = 0
                 /\ mutex' = [mutex EXCEPT ![m] = t]
                 /\ UNCHANGED seq_rwsem
            [] op = "mutex_unlock" ->
                 /\ mutex' = [mutex EXCEPT ![m] = 0]
                 /\ UNCHANGED seq_rwsem
            [] op = "down_write" ->
                 /\ seq_rwsem.writer = 0 /\ seq_rwsem.readers = {}
                 /\ seq_rwsem' = [seq_rwsem EXCEPT !.writer = t]
                 /\ UNCHANGED mutex
            [] op = "up_write" ->
                 /\ seq_rwsem' = [seq_rwsem EXCEPT !.writer = 0]
                 /\ UNCHANGED mutex
            [] op = "down_read" ->
                 /\ seq_rwsem.writer = 0
                 /\ seq_rwsem' = [seq_rwsem EXCEPT !.readers = @ \cup {t}]
                 /\ UNCHANGED mutex
            [] op = "up_read" ->
                 /\ seq_rwsem' = [seq_rwsem EXCEPT !.readers = @ \ {t}]
                 /\ UNCHANGED mutex
    /\ lk' = [lk EXCEPT ![t] = Tail(@)]
    /\ UNCHANGED <<thread_vars, commit_vars, beside_locks>>

\* the handler leaves its path: it goes on with other calls than those it
\* had yet to make
LockExit(t) ==
    /\ pc[t] = "held"
    /\ \E e \in HeldExits(req[t].cmd) :
         /\ lk[t] = e[1]
         /\ lk' = [lk EXCEPT ![t] = e[2]]
    /\ UNCHANGED <<mutex, seq_rwsem, thread_vars, commit_vars, beside_locks>>

\* the handler has made its calls and goes on to apply_commit with the
\* result of what it did
LockDone(t) ==
    /\ pc[t] = "held"
    /\ req[t].cmd \in LockCmds
    /\ lk[t] = <<>>
    /\ \E e \in {0, EIO} : err' = [err EXCEPT ![t] = e]
    /\ pc' = [pc EXCEPT ![t] = "apply"]
    /\ UNCHANGED <<lock_vars, req, hret, nreq, cw, commit_vars, beside_locks>>

\* what runs without the hold returns
LockReturn(t) ==
    /\ pc[t] = "unheld"
    /\ lk[t] = <<>>
    /\ pc' = [pc EXCEPT ![t] = "idle"]
    /\ req' = [req EXCEPT ![t] = NoReq]
    /\ UNCHANGED <<lock_vars, err, hret, nreq, cw, commit_vars, beside_locks>>

\* the steps of the requests that are under way
LockProgress ==
    \/ \E t \in Threads : LockHeld(t)
    \/ \E t \in Threads : LockStep(t)
    \/ \E t \in Threads : LockExit(t)
    \/ \E t \in Threads : LockDone(t)
    \/ \E t \in Threads : LockReturn(t)
    \/ \E t \in Threads : VoloptHold(t)
    \/ \E t \in Threads : SetVoloptBody(t)
    \/ \E t \in Threads : ClearVoloptBody(t)
    \/ \E t \in Threads : VoloptPublish(t)
    \/ \E t \in Threads : ApplyCommit(t)
    \/ \E t \in Threads : WaitForCommit(t)
    \/ \E t \in Threads : Respond(t)
    \/ CommitWorker

\* SET_VOLOPT and CLEAR_VOLOPT with one payload
LockVolopt(t) ==
    /\ t = VoloptHandler
    /\ VoloptLock(t)
    /\ req'[t].volopt = [set_bits |-> {"data_alloc_zone_blocks"},
                         data_alloc_zone_blocks |-> MaxDataBlocks]

NextLocks ==
    \/ \E t \in Threads : LockHold(t)
    \/ \E t \in Threads : LockUnheld(t)
    \/ \E t \in Threads : LockVolopt(t)
    \/ LockProgress

InitLocks == Started(VoloptSuper(MaxDataBlocks)) /\ Idle

SpecLocks == InitLocks /\ [][NextLocks]_vars

\* ---------------------------------------------------------------------------
\* the steps that remain when every down_read that comes after a waiting
\* down_write waits behind it, as the rwsem of the kernel makes it, and when
\* every handler that could leave its path goes on with it
LockProgressBehindWriter ==
    \/ \E t \in Threads : LockHeld(t)
    \/ \E t \in Threads : LockStep(t)
    \/ \E t \in Threads : LockDone(t)
    \/ \E t \in Threads : LockReturn(t)
    \/ \E t \in Threads : cpc # "down_write" /\ VoloptHold(t)
    \/ \E t \in Threads : SetVoloptBody(t)
    \/ \E t \in Threads : ClearVoloptBody(t)
    \/ \E t \in Threads : VoloptPublish(t)
    \/ \E t \in Threads : ApplyCommit(t)
    \/ \E t \in Threads : WaitForCommit(t)
    \/ \E t \in Threads : Respond(t)
    \/ CommitWorker

\* a request is under way or the commit work is queued or runs
LocksBusy ==
    \/ \E t \in Threads : pc[t] # "idle"
    \/ cpc # "idle"
    \/ commit_pending

\* the commit worker, beside the threads
CommitAgent == Reclaimer + 1
Agents == Threads \cup {CommitAgent}

\* the threads and the worker that a is waiting for: the holder of the
\* mutex it is locking, the holders of seq_rwsem, the readers of
\* commit_rwsem for down_write, the commit worker for a down_read behind it
\* and for wait_for_completion
WaitsOn(a) ==
    IF a = CommitAgent
    THEN IF cpc = "down_write" THEN commit_rwsem.readers ELSE {}
    ELSE IF pc[a] \in {"held", "unheld"} /\ lk[a] # <<>>
    THEN LET op == Head(lk[a])[1]
             m == Head(lk[a])[2]
         IN CASE op = "mutex_lock" -> {mutex[m]} \ {0}
              [] op = "down_write" -> ({seq_rwsem.writer} \ {0}) \cup seq_rwsem.readers
              [] op = "down_read" -> {seq_rwsem.writer} \ {0}
              [] OTHER -> {}
    ELSE IF pc[a] = "volopt_mutex"
    THEN IF commit_rwsem.writer \/ cpc = "down_write" THEN {CommitAgent} ELSE {}
    ELSE IF pc[a] = "wait" /\ ~cw[a].done THEN {CommitAgent}
    ELSE {}

\* a waits for ever when the members of D do: it waits for one of them, or
\* for a completion with no commit work queued or running
BlockedIn(a, D) ==
    \/ WaitsOn(a) \cap D # {}
    \/ /\ a # CommitAgent
       /\ pc[a] = "wait" /\ ~cw[a].done
       /\ cpc = "idle" /\ ~commit_pending

\* C37: no handler, worker or commit run waits in a circle.  In every
\* reachable state in which a request or the commit work is under way one
\* of them can take a step, also when no reader gets the commit hold while
\* the commit worker waits for it; and there is no set of threads, with or
\* without the commit worker, in which everyone waits for a lock that a
\* member of the set holds or for a commit that is not going to run.
NoDeadlock ==
    /\ LocksBusy => ENABLED LockProgressBehindWriter
    /\ \A D \in SUBSET Agents : D # {} => \E a \in D : ~BlockedIn(a, D)

\* SET_VOLOPT holds volopt_mutex and waits for the commit hold behind the
\* commit worker, which waits for a handler that holds logs_mutex and
\* alloc_mutex
VoloptWaitsBehindWriter ==
    /\ cpc = "down_write"
    /\ \E t \in Threads : pc[t] = "volopt_mutex"
    /\ \E t \in Threads : mutex["logs_mutex"] = t /\ mutex["alloc_mutex"] = t

\* ---------------------------------------------------------------------------
\* the mutexes the thread holds, volopt_mutex among them
HeldBy(t) ==
    {m \in Mutexes : mutex[m] = t} \cup
    (IF volopt_mutex = t THEN {"volopt_mutex"} ELSE {})

\* the thread takes the mutex in this step
Acquires(t, m) ==
    IF m = "volopt_mutex"
    THEN volopt_mutex # t /\ volopt_mutex' = t
    ELSE mutex[m] # t /\ mutex'[m] = t

\* C33 as stated: every one of the five mutexes is taken by a thread that
\* has the shared commit hold, and a thread that takes the commit hold holds
\* none of them
MutexesInsideHold ==
    [][\A t \in Threads :
         /\ \A m \in Mutexes \cup {"volopt_mutex"} :
              Acquires(t, m) => t \in commit_rwsem.readers
         /\ (t \notin commit_rwsem.readers /\ t \in commit_rwsem'.readers) =>
              HeldBy(t) = {}
      ]_vars

\* C33 amended: alloc_mutex, logs_mutex and srch_mutex are taken by a thread
\* that has the shared commit hold, and so is mounted_clients_mutex except
\* by farewell_worker, which takes it for its reads without the hold;
\* volopt_mutex is taken by a thread that does not have the hold, which then
\* takes the hold with it; a thread that takes the commit hold holds none
\* of the four other mutexes.
MutexesInsideHoldButVolopt ==
    [][\A t \in Threads :
         /\ \A m \in Mutexes :
              Acquires(t, m) =>
                 \/ t \in commit_rwsem.readers
                 \/ m = "mounted_clients_mutex" /\ req[t].cmd = "farewell_worker"
         /\ Acquires(t, "volopt_mutex") => t \notin commit_rwsem.readers
         /\ (t \notin commit_rwsem.readers /\ t \in commit_rwsem'.readers) =>
              HeldBy(t) \subseteq {"volopt_mutex"}
      ]_vars

\* a handler has taken the commit hold with volopt_mutex while
\* farewell_worker holds mounted_clients_mutex without the hold and a
\* handler inside the hold holds logs_mutex
VoloptHeldAroundHold ==
    /\ volopt_mutex \in commit_rwsem.readers
    /\ mutex["mounted_clients_mutex"] = Reclaimer
    /\ Reclaimer \notin commit_rwsem.readers
    /\ mutex["logs_mutex"] \in commit_rwsem.readers

\* ---------------------------------------------------------------------------
\* The commit protocol with the scheduling of the kernel: the work queue
\* runs the commit work that is queued and runs it to its end, and a thread
\* that can go on does.
HandlerStep(t) ==
    \/ AllocInodesBody(t)
    \/ AdvanceSeqBody(t)
    \/ ReclaimRidBody(t)
    \/ ApplyCommit(t)
    \/ WaitForCommit(t)

SpecFair ==
    /\ Spec
    /\ WF_vars(CommitWorker)
    /\ \A t \in Threads : WF_vars(HandlerStep(t))

\* C36: a thread that waits for its completion is on the list of waiters,
\* and while a waiter is on the list the commit work is queued or a run
\* has yet to reach its out label; every thread that waits in apply_commit
\* gets out of its wait.
WaitersCompleted ==
    /\ [](\A t \in Threads :
            /\ (pc[t] = "wait" /\ ~cw[t].done) => t \in commit_waiters
            /\ t \in commit_waiters =>
                 (commit_pending \/ cpc \notin {"idle", "up_write"}))
    /\ \A t \in Threads : (pc[t] = "wait") ~> (pc[t] = "respond")

\* a run got the exclusive hold with one waiter linked while it waited in
\* down_write and another linked before it started, and completed both
CompletedBoth ==
    /\ cpc = "up_write"
    /\ Cardinality(batch) = 2
    /\ \A t \in batch : cw[t].done

\* ---------------------------------------------------------------------------
\* Farewells while a mount is fenced: of the mounts that were mounted when
\* the server started the last one reconnects before the timer fires, and
\* says farewell after the fence work has run; those that do not reconnect
\* are fenced and reclaimed.  The responses go out to clients
\* that stay connected, and reclaim_rid is called by one worker at a time.
HeldFarewell ==
    /\ ~shutting_down
    /\ rcv.work = "done"
    /\ \E rid \in RecovMounts \ FarewellRids :
         /\ fence[rid] = "none"
         /\ recov_pending[rid] = {}
         /\ ServerFarewell(rid)

\* the mount that reconnects, and its steps of recovery
Reconnects == Reclaimer + NumRecov
HeldRecovStep ==
    /\ rcv.timer = "armed"
    /\ \E which \in RecovAll : ServerRecovFinish(Reconnects, which)

HeldStep ==
    \/ StartRecovery
    \/ recov_pending[Reconnects] = {} /\ RecoveryTimeout
    \/ FenceWorkRun
    \/ FenceWorkNext
    \/ \E rid \in RecovMounts : Fenced(rid)
    \/ fwk.pc = "idle" /\ RwRun
    \/ RwHold
    \/ RwReclaim
    \/ RwReclaimed
    \/ rwk.pc = "idle" /\ FwRun
    \/ FwCount
    \/ FwWalk
    \/ FwSelect
    \/ FwHold
    \/ FwReclaim
    \/ FwReclaimed
    \/ FwSend /\ fwk'.pc = "send"
    \/ FwSendDone
    \/ FwOut
    \/ \E t \in Threads : ApplyCommit(t)
    \/ \E t \in Threads : WaitForCommit(t)
    \/ CommitWorker

NextHeld ==
    \/ HeldRecovStep
    \/ HeldFarewell
    \/ HeldStep

\* the workers and the commit run when they can, the fence of a rid ends and
\* the timer fires; the clients do as they like
SpecHeld == InitRecov /\ [][NextHeld]_vars /\ WF_vars(HeldStep)

\* the requests that wait on server->farewell_requests
HeldRids == {farewell_requests[i].rid : i \in DOMAIN farewell_requests}

\* the rid has its response
Answered(rid) == \E i \in DOMAIN sent : sent[i].rid = rid

\* what farewell_worker would find now for the request of a quorum member:
\* it counts the mounted clients and the requests of quorum members on the
\* list, takes the other clients that ask off non_mnts, and tests CanSend
SendCondition(rid) ==
    LET mc == super.mounted_clients
        quo == {m.rid : m \in {x \in mc : x.quorum}}
        non == {m.rid : m \in {x \in mc : ~x.quorum}}
    IN /\ rid \in quo
       /\ CanSend([quo_mnts |-> Cardinality(quo),
                   quo_reqs |-> Cardinality(quo \cap HeldRids),
                   non_mnts |-> Cardinality(non \ HeldRids)],
                  VotesNeeded(super))

\* C39: a request that came in is on the list, with the worker or
\* answered; and the request of a quorum member that is on the list while
\* the test for sending it is true gets its response, or the server stops.
HeldFarewellAnswered ==
    /\ [](\A a \in received :
            \/ Answered(a.rid)
            \/ a.rid \in HeldRids
            \/ \E i \in DOMAIN fwk.reqs : fwk.reqs[i].rid = a.rid
            \/ \E i \in DOMAIN fwk.send : fwk.send[i].rid = a.rid)
    /\ \A rid \in RecovMounts :
         (rid \in HeldRids /\ SendCondition(rid) /\ ~shutting_down)
            ~> (Answered(rid) \/ shutting_down)


\* ------------------------------------------------- data alloc zone bitmaps
\* A bitmap is the set of the numbers of its set bits.

\* mod_extent_bits: the bits of the zones, of zone_blocks blocks each, that
\* overlap the extent; none when len is 0
ModExtentBits(zone_blocks, blkno, len) ==
    IF len = 0 THEN {}
    ELSE (blkno \div zone_blocks)..((blkno + len - 1) \div zone_blocks)

\* mod_bitmap_bits: the bits of the destination that mod_extent_bits is
\* called with, for every bit set in the first SCOUTFS_DATA_ALLOC_MAX_ZONES
\* bits of the source; they are all set or all cleared
ModBitmapBits(dst_zone_blocks, src, src_zone_blocks) ==
    UNION {ModExtentBits(dst_zone_blocks, nr * src_zone_blocks, src_zone_blocks) :
             nr \in src \cap (0..(DataAllocMaxZones - 1))}

\* the log_trees items of the tree, here one for a rid: not there, of
\* another length than struct scoutfs_log_trees, or with the zone size and
\* the zones get_log_trees stored, which are zones of extents of the device
ZoneRids == 1..NumZoneRids
ZoneItems(total) ==
    {[present |-> FALSE, val_ok |-> TRUE, data_alloc_zone_blocks |-> 0,
      data_alloc_zones |-> {}],
     [present |-> TRUE, val_ok |-> FALSE, data_alloc_zone_blocks |-> 0,
      data_alloc_zones |-> {}],
     [present |-> TRUE, val_ok |-> TRUE, data_alloc_zone_blocks |-> 0,
      data_alloc_zones |-> {}]} \cup
    UNION {[present : {TRUE}, val_ok : {TRUE}, data_alloc_zone_blocks : {szb},
            data_alloc_zones : SUBSET (ZonesOf(szb, total) \cap
                                       (0..(DataAllocMaxZones - 1)))] :
             szb \in {v \in 1..total : ZoneBlocksValid(v, total)}}

\* the loop of get_data_alloc_zone_bits from the item of the key on, in key
\* order: a is [exclusive, vacant, touched, ret], where touched are the
\* bits that were set or cleared
RECURSIVE ZoneWalk(_, _, _)
ZoneWalk(z, key, a) ==
    IF key > NumZoneRids THEN a
    ELSE LET lt == z.logs[key]
             bits == ModBitmapBits(z.zone_blocks, lt.data_alloc_zones,
                                   lt.data_alloc_zone_blocks)
         IN IF ~lt.present THEN ZoneWalk(z, key + 1, a)
            ELSE IF ~lt.val_ok THEN [a EXCEPT !.ret = EIO]
            ELSE ZoneWalk(z, key + 1,
                    [a EXCEPT !.vacant = @ \ bits,
                              !.exclusive = IF key = z.rid THEN @ \cup bits
                                            ELSE @ \ bits,
                              !.touched = @ \cup bits])

\* the tree, the super block and the volume option a call finds
ZoneSetup ==
    /\ zn.pc = "none"
    /\ \E total \in {MaxDataBlocks - 1, MaxDataBlocks} :
       \E zb \in {v \in 1..total : ZoneBlocksValid(v, total)} :
       \E logs \in [ZoneRids -> ZoneItems(total)] :
         zn' = [zn EXCEPT !.pc = "setup", !.total = total, !.zone_blocks = zb,
                          !.logs = logs]
    /\ UNCHANGED <<thread_vars, commit_vars, forcing, super, disk, root_vars,
                   pool_vars, client_vars, pending, run_vars, covered, failed,
                   seq_vars, life_vars, taken, last, volopt_vars, recov_vars,
                   block_vars, lock_vars>>

\* get_data_alloc_zone_bits(sb, rid, exclusive, vacant, zone_blocks).  A bit
\* beyond the SCOUTFS_DATA_ALLOC_MAX_ZONES bits of a bitmap is memory next
\* to it: when one is set or cleared the two bitmaps, which are next to
\* each other on the stack of server_get_log_trees, can hold anything.
GetDataAllocZoneBits(rid) ==
    /\ zn.pc = "setup"
    /\ LET first == ModExtentBits(zn.zone_blocks, 0, zn.total)
           a == ZoneWalk([zn EXCEPT !.rid = rid], 1,
                         [exclusive |-> {}, vacant |-> first, touched |-> first,
                          ret |-> 0])
           over == \E b \in a.touched : b >= DataAllocMaxZones
       IN \E ex, va \in SUBSET (0..(DataAllocMaxZones - 1)) :
            /\ ~over => ex = a.exclusive /\ va = a.vacant
            /\ zn' = [zn EXCEPT !.pc = "done", !.rid = rid, !.exclusive = ex,
                                !.vacant = va, !.overrun = over, !.ret = a.ret]
    /\ UNCHANGED <<thread_vars, commit_vars, forcing, super, disk, root_vars,
                   pool_vars, client_vars, pending, run_vars, covered, failed,
                   seq_vars, life_vars, taken, last, volopt_vars, recov_vars,
                   block_vars, lock_vars>>

NextZones ==
    \/ ZoneSetup
    \/ \E rid \in ZoneRids : GetDataAllocZoneBits(rid)

SpecZones == Init /\ [][NextZones]_vars

\* the zones of the current size that the stored zones of an item overlap
ZonesOverlapped(lt) ==
    {b \div zn.zone_blocks :
       b \in UNION {(nr * lt.data_alloc_zone_blocks)..
                    (nr * lt.data_alloc_zone_blocks + lt.data_alloc_zone_blocks - 1) :
                      nr \in lt.data_alloc_zones}}

\* C34: a get_data_alloc_zone_bits that returned 0 has set in vacant
\* exactly the zones of the device, at the current zone size, that the
\* stored zones of no item overlap, and in exclusive exactly the zones that
\* the stored zones of the item of the rid overlap and those of no item of
\* another rid do, whatever the order of the keys.
ZoneBitsExact ==
    (zn.pc = "done" /\ zn.ret = 0) =>
        /\ zn.vacant = ZonesOf(zn.zone_blocks, zn.total) \
                         UNION {ZonesOverlapped(zn.logs[k]) : k \in ZoneRids}
        /\ zn.exclusive = ZonesOverlapped(zn.logs[zn.rid]) \
                            UNION {ZonesOverlapped(zn.logs[k]) : k \in ZoneRids \ {zn.rid}}

====
